---- MODULE Spec2Model ----
(***************************************************************************)
(* Beth Yw? data model: Measure (measure.cpp), Area (area.cpp) and the     *)
(* Areas collection (areas.cpp).                                           *)
(*                                                                         *)
(* A std::string is a sequence of one-character strings.  A std::map is a  *)
(* function whose DOMAIN is the set of keys it holds.  A double read from  *)
(* the input is an integer; the result of a floating point division is a   *)
(* record (see FDiv).                                                      *)
(***************************************************************************)
EXTENDS Integers, Sequences, FiniteSets, TLC

VARIABLES measure, area, areas, loaded, driver, op, prev, ret, err

vars == <<measure, area, areas, loaded, driver, op, prev, ret, err>>

(***************************************************************************)
(* Bounds of the model.                                                    *)
(***************************************************************************)
\* number of sources read one after another into one collection
MaxSources == 2
\* number of consecutive four-digit years, starting at 1999, a value can be set for
NumYears == 2
\* values are drawn from 1..MaxValue, scaled by 10
MaxValue == 2

(***************************************************************************)
(* Characters and strings.                                                 *)
(***************************************************************************)
UpperCase == <<"A","B","C","D","E","F","G","H","I","J","K","L","M",
               "N","O","P","Q","R","S","T","U","V","W","X","Y","Z">>
LowerCase == <<"a","b","c","d","e","f","g","h","i","j","k","l","m",
               "n","o","p","q","r","s","t","u","v","w","x","y","z">>
DigitChar == <<"0","1","2","3","4","5","6","7","8","9">>

Range(s) == {s[i] : i \in DOMAIN s}

\* ::tolower in the "C" locale
tolower(c) ==
    IF \E i \in 1..26 : UpperCase[i] = c
    THEN LowerCase[CHOOSE i \in 1..26 : UpperCase[i] = c]
    ELSE c

\* std::transform(s.begin(), s.end(), s.begin(), ::tolower)
ToLowerStr(s) == [i \in 1..Len(s) |-> tolower(s[i])]

\* position of a character in ASCII order (digits, upper case, lower case)
Alphabet == DigitChar \o UpperCase \o LowerCase
CharCode(c) ==
    IF c \in Range(Alphabet)
    THEN CHOOSE i \in 1..Len(Alphabet) : Alphabet[i] = c
    ELSE 0

\* std::string operator< : the order of the keys of a std::map<std::string, T>
RECURSIVE StrLess(_, _)
StrLess(s, t) ==
    IF t = <<>> THEN FALSE
    ELSE IF s = <<>> THEN TRUE
    ELSE IF CharCode(Head(s)) # CharCode(Head(t))
         THEN CharCode(Head(s)) < CharCode(Head(t))
         ELSE StrLess(Tail(s), Tail(t))

\* the first key of a non-empty set of strings in std::map order
FirstKey(S) == CHOOSE s \in S : \A t \in S \ {s} : StrLess(s, t)

\* std::to_string(int)
RECURSIVE Dec(_)
Dec(n) ==
    IF n < 10 THEN <<DigitChar[n + 1]>>
    ELSE Dec(n \div 10) \o <<DigitChar[(n % 10) + 1]>>
to_string(n) == IF n < 0 THEN <<"-">> \o Dec(0 - n) ELSE Dec(n)

(***************************************************************************)
(* std::map                                                                *)
(***************************************************************************)
EmptyMap == [x \in {} |-> 0]

\* m[k] = v
Put(m, k, v) == [x \in DOMAIN m \cup {k} |-> IF x = k THEN v ELSE m[x]]

\* m.find(k) != m.end()
Has(m, k) == k \in DOMAIN m

(***************************************************************************)
(* Floating point results.                                                 *)
(***************************************************************************)
NaN == [nan |-> TRUE, num |-> 0, den |-> 1]
Dbl(n) == [nan |-> FALSE, num |-> n, den |-> 1]

\* a / b on doubles: 0.0 / 0 is NaN (IEEE 754); the model never divides a
\* non-zero total by zero
FDiv(a, b) == IF b = 0 THEN NaN ELSE [nan |-> FALSE, num |-> a, den |-> b]

\* x == y on doubles (NaN equals nothing)
DblEq(x, y) == ~x.nan /\ ~y.nan /\ x.num * y.den = y.num * x.den

(***************************************************************************)
(* Measure (measure.cpp)                                                   *)
(***************************************************************************)
\* Measure::Measure()
Measure_default == [codename |-> <<>>, label |-> <<>>, data |-> EmptyMap]

\* Measure::Measure(std::string codename, const std::string &label)
Measure_new(codename, label) ==
    [codename |-> ToLowerStr(codename), label |-> label, data |-> EmptyMap]

Measure_getCodename(this) == this.codename

Measure_getLabel(this) == this.label

\* a plausible slip: the value is accumulated instead of replaced
Measure_setValue_Accumulate(this, key, value) ==
    [this EXCEPT !.data =
        Put(this.data, key, IF Has(this.data, key) THEN this.data[key] + value ELSE value)]

\* void Measure::setValue(const int key, const double value)
Measure_setValue(this, key, value) ==
    [this EXCEPT !.data = Put(this.data, key, value)]

\* the regular expression [1-9][0-9][0-9][0-9], matched against the whole string
yearExprMatch(s) ==
    /\ Len(s) = 4
    /\ s[1] \in Range(DigitChar) \ {"0"}
    /\ \A i \in 2..4 : s[i] \in Range(DigitChar)

\* double Measure::getValue(const int key) const
Measure_getValue(this, key) ==
    IF Has(this.data, key) /\ yearExprMatch(to_string(key))
    THEN [ret |-> this.data[key], err |-> "none"]
    ELSE [ret |-> 0, err |-> "out_of_range"]

\* int Measure::size() const noexcept
Measure_size(this) == Cardinality(DOMAIN this.data)

\* data.begin()->first
FirstYear(this) == CHOOSE y \in DOMAIN this.data : \A z \in DOMAIN this.data : y <= z
\* data.rbegin()->first
LastYear(this) == CHOOSE y \in DOMAIN this.data : \A z \in DOMAIN this.data : z <= y

\* double Measure::getDifference() const noexcept.  data.end()->second
\* dereferences the past-the-end iterator: the value read, endSecond, is
\* whatever the build finds there.
Measure_getDifference(this, endSecond) ==
    IF Measure_size(this) > 1
    THEN endSecond - this.data[FirstYear(this)]
    ELSE 0

\* the loop of getAverage: total += iterator->second over the whole map
RECURSIVE Total(_, _)
Total(data, years) ==
    IF years = {} THEN 0
    ELSE LET y == CHOOSE z \in years : \A w \in years : z <= w
         IN  data[y] + Total(data, years \ {y})

\* double Measure::getAverage() const noexcept
Measure_getAverage(this) ==
    FDiv(Total(this.data, DOMAIN this.data), Measure_size(this))

\* the loop of the merge: this->setValue(first, second) for every entry of
\* the other Measure's data, in year order
RECURSIVE SetValues(_, _, _)
SetValues(this, data, years) ==
    IF years = {} THEN this
    ELSE LET y == CHOOSE z \in years : \A w \in years : z <= w
         IN  SetValues(Measure_setValue(this, y, data[y]), data, years \ {y})

\* a plausible slip: the merge keeps the existing label
Measure_assign_KeepLabel(this, m) ==
    SetValues(this, m.data, DOMAIN m.data)

\* Measure& Measure::operator=(const Measure &measure): the user-defined
\* assignment copies the label and merges the data; the codename of *this
\* is not assigned
Measure_assign(this, m) ==
    SetValues([this EXCEPT !.label = m.label], m.data, DOMAIN m.data)

\* Measure& Measure::overwrite(Measure &measure): declared in measure.h and
\* called by Area::setMeasure, its body is not among the sources; as the
\* design describes it, it replaces the label, then upserts every
\* (year, value) of the other Measure
Measure_overwrite(this, m) ==
    SetValues([this EXCEPT !.label = m.label], m.data, DOMAIN m.data)

(***************************************************************************)
(* Area (area.cpp)                                                         *)
(***************************************************************************)
\* Area::Area()
Area_default == [localAuthorityCode |-> <<>>, names |-> EmptyMap, measures |-> EmptyMap]

\* Area::Area(const std::string& localAuthorityCode)
Area_new(localAuthorityCode) ==
    [localAuthorityCode |-> localAuthorityCode, names |-> EmptyMap, measures |-> EmptyMap]

Area_getLocalAuthorityCode(this) == this.localAuthorityCode

\* a plausible slip: names.at(lang) replaced by names[lang], which creates the entry
Area_getName_Subscript(this, lang) ==
    [area |-> [this EXCEPT !.names =
                   IF Has(this.names, lang) THEN this.names ELSE Put(this.names, lang, <<>>)],
     ret  |-> IF Has(this.names, lang) THEN this.names[lang] ELSE <<>>,
     err  |-> "none"]

\* std::string Area::getName(const std::string lang) const
Area_getName(this, lang) ==
    IF Has(this.names, lang)
    THEN [area |-> this, ret |-> this.names[lang], err |-> "none"]
    ELSE [area |-> this, ret |-> <<>>, err |-> "out_of_range"]

\* the regular expression [a-z][a-z][a-z], matched against the whole string
langExprMatch(s) == Len(s) = 3 /\ \A i \in 1..3 : s[i] \in Range(LowerCase)

\* a plausible slip: std::regex_search instead of std::regex_match
langExprSearch(s) ==
    \E i \in 1..Len(s) : i + 2 <= Len(s) /\ \A j \in i..(i + 2) : s[j] \in Range(LowerCase)

Area_setName_Search(this, lang, name) ==
    LET l == ToLowerStr(lang)
    IN  IF ~langExprSearch(l)
        THEN [area |-> this, err |-> "invalid_argument"]
        ELSE [area |-> [this EXCEPT !.names = Put(this.names, l, name)], err |-> "none"]

\* a plausible slip: the language code is stored as given
Area_setName_NoFold(this, lang, name) ==
    IF ~langExprMatch(ToLowerStr(lang))
    THEN [area |-> this, err |-> "invalid_argument"]
    ELSE [area |-> [this EXCEPT !.names = Put(this.names, lang, name)], err |-> "none"]

\* void Area::setName(std::string lang, const std::string name)
Area_setName(this, lang, name) ==
    LET l == ToLowerStr(lang)
    IN  IF ~langExprMatch(l)
        THEN [area |-> this, err |-> "invalid_argument"]
        ELSE [area |-> [this EXCEPT !.names = Put(this.names, l, name)], err |-> "none"]

\* a plausible slip: measures.at(key) replaced by measures[key]
Area_getMeasure_Subscript(this, key) ==
    [area |-> [this EXCEPT !.measures =
                   IF Has(this.measures, key) THEN this.measures
                   ELSE Put(this.measures, key, Measure_default)],
     ret  |-> IF Has(this.measures, key) THEN this.measures[key] ELSE Measure_default,
     err  |-> "none"]

\* Measure& Area::getMeasure(const std::string key)
Area_getMeasure(this, key) ==
    IF Has(this.measures, key)
    THEN [area |-> this, ret |-> this.measures[key], err |-> "none"]
    ELSE [area |-> this, ret |-> Measure_default, err |-> "out_of_range"]

\* void Area::setMeasure(std::string codename, Measure measure).  The insert
\* a plausible slip: the codename is used as the key without lowercasing it
Area_setMeasure_NoFold(this, codename, m) ==
    IF Has(this.measures, codename)
    THEN [this EXCEPT !.measures = Put(this.measures, codename,
                                       Measure_overwrite(this.measures[codename], m))]
    ELSE [this EXCEPT !.measures = Put(this.measures, codename,
                                       Measure_assign(Measure_default, m))]

\* measures[codename] = measure default-constructs the entry and assigns to
\* it with Measure::operator=
Area_setMeasure(this, codename, m) ==
    LET c == ToLowerStr(codename)
    IN  IF Has(this.measures, c)
        THEN [this EXCEPT !.measures = Put(this.measures, c, Measure_overwrite(this.measures[c], m))]
        ELSE [this EXCEPT !.measures = Put(this.measures, c, Measure_assign(Measure_default, m))]

\* int Area::size() const noexcept
Area_size(this) == Cardinality(DOMAIN this.measures)

\* first loop of Area::overwrite: this->setName(first, second) in key order;
\* an exception of setName leaves the loop
RECURSIVE SetNames(_, _, _)
SetNames(this, names, keys) ==
    IF keys = {} THEN [area |-> this, err |-> "none"]
    ELSE LET k == FirstKey(keys)
             r == Area_setName(this, k, names[k])
         IN  IF r.err # "none" THEN r ELSE SetNames(r.area, names, keys \ {k})

\* second loop of Area::overwrite: this->setMeasure(first, second) in key order
RECURSIVE SetMeasures(_, _, _)
SetMeasures(this, measures, keys) ==
    IF keys = {} THEN this
    ELSE LET k == FirstKey(keys)
         IN  SetMeasures(Area_setMeasure(this, k, measures[k]), measures, keys \ {k})

\* a plausible slip: the merge also takes the authority code of the other Area
Area_overwrite_TakeCode(this, a) ==
    LET r == SetNames([this EXCEPT !.localAuthorityCode = a.localAuthorityCode],
                      a.names, DOMAIN a.names)
    IN  IF r.err # "none" THEN r
        ELSE [area |-> SetMeasures(r.area, a.measures, DOMAIN a.measures), err |-> "none"]

\* Area& Area::overwrite(Area &area)
Area_overwrite(this, a) ==
    LET r == SetNames(this, a.names, DOMAIN a.names)
    IN  IF r.err # "none" THEN r
        ELSE [area |-> SetMeasures(r.area, a.measures, DOMAIN a.measures), err |-> "none"]

(***************************************************************************)
(* Areas (areas.cpp)                                                       *)
(***************************************************************************)
\* a plausible slip: an existing Area is replaced instead of merged
Areas_setArea_Replace(this, key, a) ==
    [areas |-> Put(this, key, a), err |-> "none"]

\* a plausible slip: the collection is started afresh with the Area
Areas_setArea_Fresh(this, key, a) ==
    [areas |-> Put(EmptyMap, key, a), err |-> "none"]

\* void Areas::setArea(const std::string key, Area &area)
Areas_setArea(this, key, a) ==
    IF Has(this, key)
    THEN LET r == Area_overwrite(this[key], a)
         IN  [areas |-> Put(this, key, r.area), err |-> r.err]
    ELSE [areas |-> Put(this, key, a), err |-> "none"]

\* a plausible slip: areas.at(key) replaced by areas[key]
Areas_getArea_Subscript(this, key) ==
    [areas |-> IF Has(this, key) THEN this ELSE Put(this, key, Area_default),
     ret   |-> IF Has(this, key) THEN this[key] ELSE Area_default,
     err   |-> "none"]

\* Area& Areas::getArea(const std::string key)
Areas_getArea(this, key) ==
    IF Has(this, key)
    THEN [areas |-> this, ret |-> this[key], err |-> "none"]
    ELSE [areas |-> this, ret |-> Area_default, err |-> "out_of_range"]

\* int Areas::size() const noexcept
Areas_size(this) == Cardinality(DOMAIN this)

(***************************************************************************)
(* Inputs of the operations.                                               *)
(***************************************************************************)
W1 == <<"W","1">>
W2 == <<"W","2">>
W3 == <<"W","3">>
eng == <<"e","n","g">>
cym == <<"c","y","m">>
pop == <<"p","o","p">>
Powys == <<"P","o","w","y","s">>
Gwent == <<"G","w","e","n","t">>
Population == <<"P","o","p","u","l","a","t","i","o","n">>
Density == <<"D","e","n","s","i","t","y">>

\* the four-digit years of the model, and one year std::to_string renders
\* with three digits
InRangeYears == 1999..(1999 + NumYears - 1)
Years == {999} \cup InRangeYears
Values == {10 * i : i \in 1..MaxValue}

MeasureCodes == {<<"P","o","p">>}
Labels == {Population, Density}

\* every std::map<int, double> over a set of years
DataMaps(years) == UNION {[S -> Values] : S \in SUBSET years}

\* the Measures merged into another one: built over two years with the
\* constructor and setValue
MergeYears == {1999, 2000}
BuiltMeasures ==
    {SetValues(Measure_new(c, l), d, DOMAIN d) :
        c \in MeasureCodes, l \in Labels, d \in DataMaps(MergeYears)}

\* the Measures handed to Area::setMeasure: built with the constructor and
\* at most one setValue
SmallData == {EmptyMap, 1999 :> 10, 1999 :> 20, 2000 :> 20}
SmallMeasures ==
    {SetValues(Measure_new(c, l), d, DOMAIN d) :
        c \in MeasureCodes, l \in Labels, d \in SmallData}

(***************************************************************************)
(* State after construction: no object holds anything.                     *)
(***************************************************************************)
NoOp == [name |-> "init"]
\* the program has not been started
NoRun == [pc |-> "idle"]

Init ==
    /\ measure = Measure_default
    /\ area = Area_default
    /\ areas = EmptyMap
    /\ loaded = 0
    /\ driver = NoRun
    /\ op = NoOp
    /\ prev = NoOp
    /\ ret = 0
    /\ err = "none"

(***************************************************************************)
(* Operations on one Measure object, `measure`.                            *)
(***************************************************************************)
\* Measure measure(codename, label);
MeasureNew(codename, label) ==
    /\ measure' = Measure_new(codename, label)
    /\ op' = [name |-> "Measure", codename |-> codename, label |-> label]
    /\ ret' = 0
    /\ err' = "none"
    /\ UNCHANGED <<driver, loaded, area, areas, prev>>

\* measure.setValue(key, value);
MeasureSetValue(key, value) ==
    /\ measure' = Measure_setValue(measure, key, value)
    /\ op' = [name |-> "setValue", key |-> key, value |-> value]
    /\ ret' = 0
    /\ err' = "none"
    /\ UNCHANGED <<driver, loaded, area, areas, prev>>

\* measure.getValue(key);
MeasureGetValue(key) ==
    LET r == Measure_getValue(measure, key)
    IN  /\ op' = [name |-> "getValue", key |-> key]
        /\ ret' = r.ret
        /\ err' = r.err
        /\ UNCHANGED <<driver, loaded, measure, area, areas, prev>>

\* measure.getDifference(); the value found past the end of the map is any double
MeasureGetDifference ==
    \E endSecond \in Values :
        /\ op' = [name |-> "getDifference"]
        /\ ret' = Measure_getDifference(measure, endSecond)
        /\ err' = "none"
        /\ UNCHANGED <<driver, loaded, measure, area, areas, prev>>

\* measure.getAverage();
MeasureGetAverage ==
    /\ op' = [name |-> "getAverage"]
    /\ ret' = Measure_getAverage(measure)
    /\ err' = "none"
    /\ UNCHANGED <<driver, loaded, measure, area, areas, prev>>

\* measure = other;
MeasureAssign(other) ==
    /\ measure' = Measure_assign(measure, other)
    /\ op' = [name |-> "merge", other |-> other, pre |-> measure]
    /\ ret' = 0
    /\ err' = "none"
    /\ UNCHANGED <<driver, loaded, area, areas, prev>>

NextMeasure ==
    \/ \E c \in MeasureCodes, l \in Labels : MeasureNew(c, l)
    \/ \E y \in Years, v \in Values : MeasureSetValue(y, v)
    \/ \E y \in Years : MeasureGetValue(y)
    \/ MeasureGetDifference
    \/ MeasureGetAverage
    \/ \E other \in BuiltMeasures : MeasureAssign(other)

SpecMeasure == Init /\ [][NextMeasure]_vars

(***************************************************************************)
(* Operations on one Area object, `area`.  prev remembers the call before  *)
(* the last one when it was a setName.                                      *)
(***************************************************************************)
LangInputs == {eng, <<"E","N","G">>, cym, <<"e","n">>, <<"e","n","g","l">>, <<"e","n","1">>}
NameInputs == {Powys, Gwent}
CodenameInputs == {pop, <<"P","o","p">>}

Remember ==
    IF op.name = "setName"
    THEN [name |-> "setName", lang |-> op.lang, value |-> op.value]
    ELSE NoOp

\* Area area(localAuthorityCode);
AreaNew(localAuthorityCode) ==
    /\ area' = Area_new(localAuthorityCode)
    /\ op' = [name |-> "Area", code |-> localAuthorityCode]
    /\ prev' = Remember
    /\ ret' = 0
    /\ err' = "none"
    /\ UNCHANGED <<driver, loaded, measure, areas>>

\* area.setName(lang, name);
AreaSetName(lang, name) ==
    LET r == Area_setName(area, lang, name)
    IN  /\ area' = r.area
        /\ op' = [name |-> "setName", lang |-> lang, value |-> name, pre |-> area.names]
        /\ prev' = Remember
        /\ ret' = 0
        /\ err' = r.err
        /\ UNCHANGED <<driver, loaded, measure, areas>>

\* area.getName(lang);
AreaGetName(lang) ==
    LET r == Area_getName(area, lang)
    IN  /\ area' = r.area
        /\ op' = [name |-> "getName", lang |-> lang, pre |-> area]
        /\ prev' = Remember
        /\ ret' = r.ret
        /\ err' = r.err
        /\ UNCHANGED <<driver, loaded, measure, areas>>

\* area.setMeasure(codename, m);
AreaSetMeasure(codename, m) ==
    /\ area' = Area_setMeasure(area, codename, m)
    /\ op' = [name |-> "setMeasure", codename |-> codename, m |-> m, pre |-> area.measures]
    /\ prev' = Remember
    /\ ret' = 0
    /\ err' = "none"
    /\ UNCHANGED <<driver, loaded, measure, areas>>

\* area.getMeasure(key);
AreaGetMeasure(key) ==
    LET r == Area_getMeasure(area, key)
    IN  /\ area' = r.area
        /\ op' = [name |-> "getMeasure", key |-> key, pre |-> area]
        /\ prev' = Remember
        /\ ret' = r.ret
        /\ err' = r.err
        /\ UNCHANGED <<driver, loaded, measure, areas>>

NextArea ==
    \/ AreaNew(W1)
    \/ \E l \in LangInputs, n \in NameInputs : AreaSetName(l, n)
    \/ \E l \in LangInputs : AreaGetName(l)
    \/ \E c \in CodenameInputs, m \in SmallMeasures : AreaSetMeasure(c, m)
    \/ \E c \in CodenameInputs : AreaGetMeasure(c)

SpecArea == Init /\ [][NextArea]_vars

(***************************************************************************)
(* One Area under setName, setMeasure and the merge of another Area.       *)
(***************************************************************************)
\* the Areas merged into `area`: built through the API, with mixed-case
\* arguments
OtherAreas ==
    {SetMeasures(SetNames(Area_new(W2), n, DOMAIN n).area, m, DOMAIN m) :
        n \in {EmptyMap, <<"C","Y","M">> :> Gwent, (eng :> Gwent) @@ (cym :> Powys)},
        m \in {EmptyMap, <<"D","e","n","s">> :> Measure_new(<<"D","e","n","s">>, Density)}}
MergedMeasures ==
    {Measure_new(pop, Population), SetValues(Measure_new(pop, Density), 1999 :> 10, {1999})}

\* area.overwrite(other);
AreaOverwrite(other) ==
    LET r == Area_overwrite(area, other)
    IN  /\ area' = r.area
        /\ op' = [name |-> "overwrite", other |-> other, pre |-> area]
        /\ prev' = Remember
        /\ ret' = 0
        /\ err' = r.err
        /\ UNCHANGED <<driver, loaded, measure, areas>>

NextAreaMerge ==
    \/ AreaNew(W1)
    \/ \E l \in LangInputs : AreaSetName(l, Powys)
    \/ \E c \in CodenameInputs, m \in MergedMeasures : AreaSetMeasure(c, m)
    \/ \E other \in OtherAreas : AreaOverwrite(other)

SpecAreaMerge == Init /\ [][NextAreaMerge]_vars

(***************************************************************************)
(* Operations on the Areas collection, `areas`.  The Area handed to        *)
(* setArea(key, a) is built with the constructor, setName and setMeasure;  *)
(* getArea returns a reference, through which getName and getMeasure are   *)
(* called on a stored Area.                                                *)
(***************************************************************************)
Keys == {W1, W2}

NameMaps == {n \in UNION {[S -> NameInputs] : S \in SUBSET {eng, cym}} :
                cym \in DOMAIN n => n[cym] = Powys}

AreaData == {1999 :> 10, (1999 :> 20) @@ (2000 :> 20)}
AreaMeasures ==
    {SetValues(Measure_new(c, l), d, DOMAIN d) :
        c \in MeasureCodes, l \in Labels, d \in AreaData}
MeasureMaps == UNION {[S -> AreaMeasures] : S \in SUBSET {pop}}

\* Area a(code); a.setName(..) for every name; a.setMeasure(..) for every measure
BuildArea(code, names, measures) ==
    SetMeasures(SetNames(Area_new(code), names, DOMAIN names).area,
                measures, DOMAIN measures)

\* every built Area for W1; two of them for W2, the other key of the collection
InputAreas ==
    [code \in Keys |->
        IF code = W1
        THEN {BuildArea(code, n, m) : n \in NameMaps, m \in MeasureMaps}
        ELSE {BuildArea(code, eng :> Gwent, EmptyMap)} \cup
             {BuildArea(code, EmptyMap, pop :> m) :
                 m \in {SetValues(Measure_new(pop, Density), 1999 :> 10, {1999})}}]

\* areas.setArea(key, a);
AreasSetArea(key, a) ==
    LET r == Areas_setArea(areas, key, a)
    IN  /\ areas' = r.areas
        /\ op' = [name |-> "setArea", key |-> key, a |-> a, pre |-> areas,
                  repeated |-> (op.name = "setArea" /\ op.key = key /\ op.a = a)]
        /\ ret' = 0
        /\ err' = r.err
        /\ UNCHANGED <<driver, loaded, measure, area, prev>>

\* areas.getArea(key);
AreasGetArea(key) ==
    LET r == Areas_getArea(areas, key)
    IN  /\ areas' = r.areas
        /\ op' = [name |-> "getArea", key |-> key, pre |-> areas]
        /\ ret' = r.ret
        /\ err' = r.err
        /\ UNCHANGED <<driver, loaded, measure, area, prev>>

\* areas.getArea(key).getName(lang);  for a key the collection holds
StoredGetName(key, lang) ==
    /\ Has(areas, key)
    /\ LET r == Area_getName(areas[key], lang)
       IN  /\ areas' = Put(areas, key, r.area)
           /\ op' = [name |-> "getName", key |-> key, lang |-> lang, pre |-> areas]
           /\ ret' = r.ret
           /\ err' = r.err
           /\ UNCHANGED <<driver, loaded, measure, area, prev>>

\* areas.getArea(key).getMeasure(codename);  for a key the collection holds
StoredGetMeasure(key, codename) ==
    /\ Has(areas, key)
    /\ LET r == Area_getMeasure(areas[key], codename)
       IN  /\ areas' = Put(areas, key, r.area)
           /\ op' = [name |-> "getMeasure", key |-> key, codename |-> codename, pre |-> areas]
           /\ ret' = r.ret
           /\ err' = r.err
           /\ UNCHANGED <<driver, loaded, measure, area, prev>>

Next ==
    \/ \E k \in Keys : \E a \in InputAreas[k] : AreasSetArea(k, a)
    \/ \E k \in Keys \cup {W3} : AreasGetArea(k)
    \/ \E k \in Keys, l \in {eng, cym} : StoredGetName(k, l)
    \/ \E k \in Keys, c \in CodenameInputs : StoredGetMeasure(k, c)

Spec == Init /\ [][Next]_vars

(***************************************************************************)
(* The readers of areas.cpp.  A file is the sequence of its lines, a line   *)
(* a std::string.  A filter is a pointer: null, or a set of terms.          *)
(***************************************************************************)
\* std::getline(lineStream, token, delimiter) until it fails: the pieces
\* between the delimiters
RECURSIVE Pieces(_, _)
Pieces(s, delimiter) ==
    IF \A i \in 1..Len(s) : s[i] # delimiter
    THEN <<s>>
    ELSE LET i == CHOOSE j \in 1..Len(s) :
                      s[j] = delimiter /\ \A h \in 1..(j - 1) : s[h] # delimiter
         IN  <<SubSeq(s, 1, i - 1)>> \o Pieces(SubSeq(s, i + 1, Len(s)), delimiter)

\* a plausible slip: the empty token after the last delimiter is kept
getLineTokens_KeepLast(line, delimiter) == Pieces(line, delimiter)

\* std::vector<std::string> Areas::getLineTokens(ls, line, delimiter): the
\* loop ends when getline extracts nothing at the end of the line, so an
\* empty last piece is no token
getLineTokens(line, delimiter) ==
    LET p == Pieces(line, delimiter)
    IN  IF p[Len(p)] = <<>> THEN SubSeq(p, 1, Len(p) - 1) ELSE p

\* std::string::npos
npos == 0 - 1

\* base.find(search): the first offset at which search occurs in base
Find(base, search) ==
    LET At(i) == \A j \in 1..Len(search) : base[i + j] = search[j]
        hits == {i \in 0..(Len(base) - Len(search)) : At(i)}
    IN  IF hits = {} THEN npos ELSE CHOOSE i \in hits : \A h \in hits : i <= h

\* a plausible slip: the two strings are compared as given
contains_CaseSensitive(base, search) == Find(base, search) # npos

\* bool Areas::contains(std::string base, std::string search) const noexcept
contains(base, search) == Find(ToLowerStr(base), ToLowerStr(search)) # npos

\* a null filter pointer, and a pointer to a set of terms
NullFilter == [null |-> TRUE, terms |-> {}]
FilterOf(terms) == [null |-> FALSE, terms |-> terms]

\* lineTokens[i] (0-based): past the end of the vector the read is
\* undefined, it yields whatever string oob.cell the build finds there
TokenAt(tokens, i, oob) == IF i < Len(tokens) THEN tokens[i + 1] ELSE oob.cell

\* the columns of the source
AUTH_CODE == "AUTH_CODE"
AUTH_NAME_ENG == "AUTH_NAME_ENG"
AUTH_NAME_CYM == "AUTH_NAME_CYM"
MEASURE_CODE == "MEASURE_CODE"
MEASURE_NAME == "MEASURE_NAME"
YEAR == "YEAR"
VALUE == "VALUE"
SINGLE_MEASURE_CODE == "SINGLE_MEASURE_CODE"
SINGLE_MEASURE_NAME == "SINGLE_MEASURE_NAME"

\* a plausible slip: the row's Area is merged into the collection with setArea
parseAreaFromAuthorityCodeCSV_Merge(this, lineTokens, oob) ==
    LET code == TokenAt(lineTokens, 0, oob)
        r1 == Area_setName(Area_new(code), eng, TokenAt(lineTokens, 1, oob))
        r2 == Area_setName(r1.area, cym, TokenAt(lineTokens, 2, oob))
    IN  IF r1.err # "none" \/ r2.err # "none" THEN this
        ELSE Areas_setArea(this, code, r2.area).areas

\* void Areas::parseAreaFromAuthorityCodeCSV(std::vector<std::string>) noexcept:
\* areas[lineTokens[0]] = area assigns the row's Area over the entry
parseAreaFromAuthorityCodeCSV(this, lineTokens, oob) ==
    LET code == TokenAt(lineTokens, 0, oob)
        r1 == Area_setName(Area_new(code), eng, TokenAt(lineTokens, 1, oob))
        r2 == Area_setName(r1.area, cym, TokenAt(lineTokens, 2, oob))
    IN  IF r1.err # "none" \/ r2.err # "none" THEN this
        ELSE Put(this, code, r2.area)

\* the areas filtering the three readers share: how often a row is passed
\* on.  Once when areasFilter is nullptr or empty; else the for loop over
\* *areasFilter passes it on once for each term one of the fields contains
AreaFilterCalls(areasFilter, fields) ==
    IF areasFilter.null \/ areasFilter.terms = {} THEN 1
    ELSE Cardinality({t \in areasFilter.terms : \E f \in fields : contains(f, t)})

\* the n calls of parseAreaFromAuthorityCodeCSV(tokens) made for one row
RECURSIVE AuthorityCodeRow(_, _, _, _)
AuthorityCodeRow(this, n, lineTokens, oob) ==
    IF n = 0 THEN this
    ELSE AuthorityCodeRow(parseAreaFromAuthorityCodeCSV(this, lineTokens, oob),
                          n - 1, lineTokens, oob)

\* the body of the while loop of populateFromAuthorityCodeCSV, for the rows
\* from the i-th on; a read past the end of a row's tokens may also end the
\* process (oob.crash)
RECURSIVE AuthorityCodeRows(_, _, _, _, _)
AuthorityCodeRows(this, lines, i, areasFilter, oob) ==
    IF i > Len(lines) THEN [areas |-> this, err |-> "none"]
    ELSE LET tokens == getLineTokens(lines[i], ",")
             fields == {TokenAt(tokens, k, oob) : k \in 0..2}
         IN  IF Len(tokens) < 3 /\ oob.crash
             THEN [areas |-> this, err |-> "crash"]
             ELSE AuthorityCodeRows(
                      AuthorityCodeRow(this, AreaFilterCalls(areasFilter, fields),
                                       tokens, oob),
                      lines, i + 1, areasFilter, oob)

\* the lines std::getline reads from a stream, from its position on; none
\* when the stream is bad
StreamLines(is) ==
    IF is.bad THEN <<>> ELSE SubSeq(is.lines, is.pos + 1, Len(is.lines))

\* std::getline(is, line): the line read, empty when there is none, and the
\* stream after it
StreamGetline(is) ==
    LET lines == StreamLines(is)
    IN  [line |-> IF Len(lines) = 0 THEN <<>> ELSE lines[1],
         is |-> IF Len(lines) = 0 THEN is ELSE [is EXCEPT !.pos = is.pos + 1]]

\* is.seekg(pos) on a stream of a file or of a string
StreamSeekg(is, pos) == [is EXCEPT !.pos = pos]

\* void Areas::populateFromAuthorityCodeCSV(is, cols, areasFilter)
Areas_populateFromAuthorityCodeCSV(this, is, cols, areasFilter, oob) ==
    LET lines == StreamLines(is)
        tokens == IF Len(lines) = 0 THEN <<>> ELSE getLineTokens(lines[1], ",")
    IN  IF Len(tokens) = 3
        THEN IF /\ {AUTH_CODE, AUTH_NAME_ENG, AUTH_NAME_CYM} \subseteq DOMAIN cols
                /\ tokens[1] = cols[AUTH_CODE]
                /\ tokens[2] = cols[AUTH_NAME_ENG]
                /\ tokens[3] = cols[AUTH_NAME_CYM]
             THEN AuthorityCodeRows(this, lines, 2, areasFilter, oob)
             ELSE [areas |-> this, err |-> "out_of_range"]
        ELSE [areas |-> this, err |-> "out_of_range"]

\* a plausible slip: the position is not reset after the first line is read
checkFileStatus_NoSeek(is) ==
    IF is.bad THEN [err |-> "runtime_error", is |-> is]
    ELSE LET g == StreamGetline(is)
         IN  IF g.line = <<>> THEN [err |-> "runtime_error", is |-> g.is]
             ELSE [err |-> "none", is |-> g.is]

\* void Areas::checkFileStatus(std::istream &is) const: the error thrown, if
\* any, and the stream afterwards.  The first line is read and the position
\* reset with seekg(0)
checkFileStatus(is) ==
    IF is.bad THEN [err |-> "runtime_error", is |-> is]
    ELSE LET g == StreamGetline(is)
         IN  IF g.line = <<>> THEN [err |-> "runtime_error", is |-> g.is]
             ELSE [err |-> "none", is |-> StreamSeekg(g.is, 0)]

\* the value of a digit character
DigitValue(c) == (CHOOSE i \in 1..10 : DigitChar[i] = c) - 1

\* the digits a numeric extraction takes from the front of s
RECURSIVE LeadingDigits(_)
LeadingDigits(s) ==
    IF s = <<>> \/ s[1] \notin Range(DigitChar) THEN <<>>
    ELSE <<s[1]>> \o LeadingDigits(Tail(s))

\* the number a sequence of digits denotes
RECURSIVE NumberOf(_)
NumberOf(digits) ==
    IF digits = <<>> THEN 0
    ELSE 10 * NumberOf(SubSeq(digits, 1, Len(digits) - 1)) + DigitValue(digits[Len(digits)])

\* std::stoi(str), ss >> num and ss >> value on the numerals of the model
\* (no sign, no blank, no fraction): the leading digits are converted, and
\* the extraction fails when there is none
ParseNumber(s) ==
    LET d == LeadingDigits(s)
    IN  [ok |-> d # <<>>, val |-> NumberOf(d)]

\* a plausible slip: a failed extraction is reported
StreamToDouble_Throwing(s) ==
    LET n == ParseNumber(s)
    IN  IF n.ok THEN [val |-> n.val, err |-> "none"] ELSE [val |-> 0, err |-> "runtime_error"]

\* std::stringstream ss(cell); double value; ss >> value;  a failed
\* extraction stores 0 in value and sets failbit, which nothing reads
StreamToDouble(s) ==
    LET n == ParseNumber(s)
    IN  [val |-> IF n.ok THEN n.val ELSE 0, err |-> "none"]

\* int Areas::safeStringToInt(const std::string &str) const
safeStringToInt(str) ==
    LET n == ParseNumber(str)
    IN  IF n.ok THEN [val |-> n.val, err |-> "none"] ELSE [val |-> 0, err |-> "runtime_error"]

\* double Areas::safeStringToDouble(const std::string& str) const
safeStringToDouble(str) ==
    LET n == ParseNumber(str)
    IN  IF n.ok THEN [val |-> n.val, err |-> "none"] ELSE [val |-> 0, err |-> "runtime_error"]

\* std::vector<unsigned int> Areas::parseYearColumns(lineTokens) const
\* noexcept: the years of the columns after the first, up to the first one
\* std::stoi refuses
RECURSIVE ParseYearsFrom(_, _)
ParseYearsFrom(lineTokens, i) ==
    IF i > Len(lineTokens) THEN <<>>
    ELSE LET n == ParseNumber(lineTokens[i])
         IN  IF ~n.ok THEN <<>> ELSE <<n.val>> \o ParseYearsFrom(lineTokens, i + 1)
parseYearColumns(lineTokens) == ParseYearsFrom(lineTokens, 2)

\* no years filter, and a pointer to the tuple (lo, hi)
NullYears == [null |-> TRUE, lo |-> 0, hi |-> 0]
YearsOf(lo, hi) == [null |-> FALSE, lo |-> lo, hi |-> hi]

\* a plausible slip: the upper end of the range is excluded
YearAdmitted_Exclusive(yearsFilter, year) ==
    \/ yearsFilter.null
    \/ (year >= yearsFilter.lo /\ year < yearsFilter.hi)
    \/ (yearsFilter.lo = 0 /\ yearsFilter.hi = 0)

\* the years filtering both readers apply before measure.setValue(year, value)
YearAdmitted(yearsFilter, year) ==
    \/ yearsFilter.null
    \/ (year >= yearsFilter.lo /\ year <= yearsFilter.hi)
    \/ (yearsFilter.lo = 0 /\ yearsFilter.hi = 0)

\* the loop of parseMeasureSingleCSV over the years from the i-th (0-based) on
RECURSIVE SingleCSVValues(_, _, _, _, _, _)
SingleCSVValues(m, lineTokens, years, i, yearsFilter, oob) ==
    IF i >= Len(years) THEN m
    ELSE LET value == StreamToDouble(TokenAt(lineTokens, i + 1, oob)).val
         IN  SingleCSVValues(
                 IF YearAdmitted(yearsFilter, years[i + 1])
                 THEN Measure_setValue(m, years[i + 1], value) ELSE m,
                 lineTokens, years, i + 1, yearsFilter, oob)

\* Measure Areas::parseMeasureSingleCSV(lineTokens, cols, years, yearsFilter)
parseMeasureSingleCSV(lineTokens, cols, years, yearsFilter, oob) ==
    IF ~({SINGLE_MEASURE_CODE, SINGLE_MEASURE_NAME} \subseteq DOMAIN cols)
    THEN [measure |-> Measure_default, err |-> "out_of_range"]
    ELSE IF Len(lineTokens) < Len(years) + 1 /\ oob.crash
    THEN [measure |-> Measure_default, err |-> "crash"]
    ELSE [measure |-> SingleCSVValues(
                          Measure_new(cols[SINGLE_MEASURE_CODE], cols[SINGLE_MEASURE_NAME]),
                          lineTokens, years, 0, yearsFilter, oob),
          err |-> "none"]

\* a plausible slip: the measures filter is not consulted
MeasureAdmittedCSV_Always(measuresFilter, cols) == TRUE

\* the measures filtering of parseAreaSingleCSV: the configured code is
\* looked up in the set as it is written in cols
MeasureAdmittedCSV(measuresFilter, cols) ==
    \/ measuresFilter.null
    \/ cols[SINGLE_MEASURE_CODE] \in measuresFilter.terms
    \/ measuresFilter.terms = {}

\* void Areas::parseAreaSingleCSV(lineTokens, cols, years, measuresFilter,
\* yearsFilter).  Measure measure; measure = parseMeasureSingleCSV(..) assigns
\* to a default-constructed Measure with Measure::operator=
parseAreaSingleCSV(this, lineTokens, cols, years, measuresFilter, yearsFilter, oob) ==
    LET code == TokenAt(lineTokens, 0, oob)
        admitted == MeasureAdmittedCSV(measuresFilter, cols)
        p == IF admitted
             THEN parseMeasureSingleCSV(lineTokens, cols, years, yearsFilter, oob)
             ELSE [measure |-> Measure_default, err |-> "none"]
        measure1 == Measure_assign(Measure_default, p.measure)
        area0 == Area_new(code)
        area1 == IF admitted
                 THEN Area_setMeasure(area0, Measure_getCodename(measure1), measure1)
                 ELSE area0
    IN  IF Len(lineTokens) = 0 /\ oob.crash THEN [areas |-> this, err |-> "crash"]
        ELSE IF ~measuresFilter.null /\ SINGLE_MEASURE_CODE \notin DOMAIN cols
        THEN [areas |-> this, err |-> "out_of_range"]
        ELSE IF p.err # "none" THEN [areas |-> this, err |-> p.err]
        ELSE Areas_setArea(this, code, area1)

\* the n calls of parseAreaSingleCSV(lineTokens, ..) made for one row
RECURSIVE AuthorityByYearRow(_, _, _, _, _, _, _, _)
AuthorityByYearRow(this, n, lineTokens, cols, years, measuresFilter, yearsFilter, oob) ==
    IF n = 0 THEN [areas |-> this, err |-> "none"]
    ELSE LET r == parseAreaSingleCSV(this, lineTokens, cols, years,
                                     measuresFilter, yearsFilter, oob)
         IN  IF r.err # "none" THEN r
             ELSE AuthorityByYearRow(r.areas, n - 1, lineTokens, cols, years,
                                     measuresFilter, yearsFilter, oob)

\* the while loop of populateFromAuthorityByYearCSV, for the rows from the
\* i-th on
RECURSIVE AuthorityByYearRows(_, _, _, _, _, _, _, _, _)
AuthorityByYearRows(this, lines, i, cols, years, areasFilter, measuresFilter, yearsFilter, oob) ==
    IF i > Len(lines) THEN [areas |-> this, err |-> "none"]
    ELSE LET tokens == getLineTokens(lines[i], ",")
             r == IF Len(tokens) = 0 /\ oob.crash
                  THEN [areas |-> this, err |-> "crash"]
                  ELSE AuthorityByYearRow(
                           this, AreaFilterCalls(areasFilter, {TokenAt(tokens, 0, oob)}),
                           tokens, cols, years, measuresFilter, yearsFilter, oob)
         IN  IF r.err # "none" THEN r
             ELSE AuthorityByYearRows(r.areas, lines, i + 1, cols, years,
                                      areasFilter, measuresFilter, yearsFilter, oob)

\* the number of columns populateFromAuthorityByYearCSV accepts
ByYearColumns == 12

\* a plausible slip: the number of columns of the header is not checked
HeaderWidthOk_Any(lineTokens) == TRUE

\* lineTokens.size() == 12
HeaderWidthOk(lineTokens) == Len(lineTokens) = ByYearColumns

\* void Areas::populateFromAuthorityByYearCSV(is, cols, areasFilter,
\* measuresFilter, yearsFilter)
Areas_populateFromAuthorityByYearCSV(this, is, cols, areasFilter, measuresFilter, yearsFilter, oob) ==
    IF checkFileStatus(is).err # "none" THEN [areas |-> this, err |-> "runtime_error"]
    ELSE LET lines == StreamLines(checkFileStatus(is).is)
             lineTokens == IF Len(lines) = 0 THEN <<>> ELSE getLineTokens(lines[1], ",")
         IN  IF AUTH_CODE \notin DOMAIN cols THEN [areas |-> this, err |-> "out_of_range"]
             ELSE IF TokenAt(lineTokens, 0, oob) = cols[AUTH_CODE]
             THEN IF HeaderWidthOk(lineTokens)
                  THEN AuthorityByYearRows(this, lines, 2, cols,
                                           parseYearColumns(lineTokens),
                                           areasFilter, measuresFilter, yearsFilter, oob)
                  ELSE [areas |-> this, err |-> "out_of_range"]
             ELSE [areas |-> this, err |-> "runtime_error"]

\* the values of a parsed JSON document: a string, a number, or the null a
\* missing field reads as
JString(s) == [type |-> "string", str |-> s, num |-> 0]
JNumber(n) == [type |-> "number", str |-> <<>>, num |-> n]
JNull == [type |-> "null", str |-> <<>>, num |-> 0]

\* data[key]
JField(data, key) == IF key \in DOMAIN data THEN data[key] ELSE JNull

\* the conversion of data[key] to std::string, which the library refuses
\* for a value that is no string
JToString(v) ==
    IF v.type = "string" THEN [val |-> v.str, err |-> "none"]
    ELSE [val |-> <<>>, err |-> "type_error"]

\* data[cols.at(role)] converted to std::string
JStringAt(cols, data, role) ==
    IF role \notin DOMAIN cols THEN [val |-> <<>>, err |-> "out_of_range"]
    ELSE JToString(JField(data, cols[role]))

\* std::string Areas::retrieveMeasureCodeFromJSON(cols, data)
retrieveMeasureCodeFromJSON(cols, data) ==
    LET r == IF MEASURE_CODE \notin DOMAIN cols
             THEN IF SINGLE_MEASURE_CODE \in DOMAIN cols
                  THEN [val |-> cols[SINGLE_MEASURE_CODE], err |-> "none"]
                  ELSE [val |-> <<>>, err |-> "out_of_range"]
             ELSE JStringAt(cols, data, MEASURE_CODE)
    IN  [val |-> ToLowerStr(r.val), err |-> r.err]

\* std::string Areas::retrieveMeasureNameFromJSON(cols, data)
retrieveMeasureNameFromJSON(cols, data) ==
    IF MEASURE_CODE \notin DOMAIN cols
    THEN IF SINGLE_MEASURE_NAME \in DOMAIN cols
         THEN [val |-> cols[SINGLE_MEASURE_NAME], err |-> "none"]
         ELSE [val |-> <<>>, err |-> "out_of_range"]
    ELSE JStringAt(cols, data, MEASURE_NAME)

\* double Areas::retrieveMeasureValueFromJSON(cols, data)
retrieveMeasureValueFromJSON(cols, data) ==
    IF VALUE \notin DOMAIN cols THEN [val |-> 0, err |-> "out_of_range"]
    ELSE LET v == JField(data, cols[VALUE])
         IN  IF v.type = "number" THEN [val |-> v.num, err |-> "none"]
             ELSE LET s == JToString(v)
                  IN  IF s.err # "none" THEN [val |-> 0, err |-> s.err]
                      ELSE safeStringToDouble(s.val)

\* unsigned int year = safeStringToInt(data[cols.at(YEAR)])
YearFromJSON(cols, data) ==
    LET s == JStringAt(cols, data, YEAR)
    IN  IF s.err # "none" THEN [val |-> 0, err |-> s.err] ELSE safeStringToInt(s.val)

\* a plausible slip: the set is searched for the code without the size test
MeasureAdmittedJSON_NoEmpty(measuresFilter, measureCode) ==
    \/ measuresFilter.null
    \/ measureCode \in measuresFilter.terms

\* the measures filtering of populateFromWelshStatsJSON
MeasureAdmittedJSON(measuresFilter, measureCode) ==
    \/ measuresFilter.null
    \/ measureCode \in measuresFilter.terms
    \/ measuresFilter.terms = {}

\* a plausible slip: the Area of a record is merged whatever the filter says
WelshStatsSetArea_Always(this, n, localAuthorityCode, a) ==
    Areas_setArea(this, localAuthorityCode, a)

\* the n calls of this->setArea(localAuthorityCode, area) made for one record
RECURSIVE WelshStatsSetArea(_, _, _, _)
WelshStatsSetArea(this, n, localAuthorityCode, a) ==
    IF n = 0 THEN [areas |-> this, err |-> "none"]
    ELSE LET r == Areas_setArea(this, localAuthorityCode, a)
         IN  IF r.err # "none" THEN r
             ELSE WelshStatsSetArea(r.areas, n - 1, localAuthorityCode, a)

\* a plausible slip: a record whose year the filter excludes is skipped
WelshStatsRecord_SkipYear(this, data, cols, areasFilter, measuresFilter, yearsFilter) ==
    LET code == JStringAt(cols, data, AUTH_CODE)
        nameEng == JStringAt(cols, data, AUTH_NAME_ENG)
        measureCode == retrieveMeasureCodeFromJSON(cols, data)
        measureName == retrieveMeasureNameFromJSON(cols, data)
        year == YearFromJSON(cols, data)
        value == retrieveMeasureValueFromJSON(cols, data)
        errs == <<code.err, nameEng.err, measureCode.err, measureName.err, year.err, value.err>>
        named == Area_setName(Area_new(code.val), eng, nameEng.val).area
        m == Measure_setValue(Measure_new(measureCode.val, measureName.val),
                              year.val, value.val)
        a == IF MeasureAdmittedJSON(measuresFilter, measureCode.val)
             THEN Area_setMeasure(named, measureCode.val, m) ELSE named
    IN  IF \E i \in 1..6 : errs[i] # "none"
        THEN [areas |-> this,
              err |-> errs[CHOOSE i \in 1..6 :
                               errs[i] # "none" /\ \A h \in 1..(i - 1) : errs[h] = "none"]]
        ELSE IF ~YearAdmitted(yearsFilter, year.val) THEN [areas |-> this, err |-> "none"]
        ELSE WelshStatsSetArea(this, AreaFilterCalls(areasFilter, {code.val, nameEng.val}),
                               code.val, a)

\* the body of the for loop of populateFromWelshStatsJSON: one record
WelshStatsRecord(this, data, cols, areasFilter, measuresFilter, yearsFilter) ==
    LET code == JStringAt(cols, data, AUTH_CODE)
        nameEng == JStringAt(cols, data, AUTH_NAME_ENG)
        measureCode == retrieveMeasureCodeFromJSON(cols, data)
        measureName == retrieveMeasureNameFromJSON(cols, data)
        year == YearFromJSON(cols, data)
        value == retrieveMeasureValueFromJSON(cols, data)
        errs == <<code.err, nameEng.err, measureCode.err, measureName.err, year.err, value.err>>
        named == Area_setName(Area_new(code.val), eng, nameEng.val).area
        m0 == Measure_new(measureCode.val, measureName.val)
        m == IF YearAdmitted(yearsFilter, year.val)
             THEN Measure_setValue(m0, year.val, value.val) ELSE m0
        a == IF MeasureAdmittedJSON(measuresFilter, measureCode.val)
             THEN Area_setMeasure(named, measureCode.val, m) ELSE named
    IN  IF \E i \in 1..6 : errs[i] # "none"
        THEN [areas |-> this,
              err |-> errs[CHOOSE i \in 1..6 :
                               errs[i] # "none" /\ \A h \in 1..(i - 1) : errs[h] = "none"]]
        ELSE WelshStatsSetArea(this, AreaFilterCalls(areasFilter, {code.val, nameEng.val}),
                               code.val, a)

\* the for loop of populateFromWelshStatsJSON over j["value"], from the i-th
\* record on; an exception leaves the loop with the earlier records merged
RECURSIVE WelshStatsRecords(_, _, _, _, _, _, _)
WelshStatsRecords(this, value, i, cols, areasFilter, measuresFilter, yearsFilter) ==
    IF i > Len(value) THEN [areas |-> this, err |-> "none"]
    ELSE LET r == WelshStatsRecord(this, value[i], cols,
                                   areasFilter, measuresFilter, yearsFilter)
         IN  IF r.err # "none" THEN r
             ELSE WelshStatsRecords(r.areas, value, i + 1, cols,
                                    areasFilter, measuresFilter, yearsFilter)

\* void Areas::populateFromWelshStatsJSON(is, cols, areasFilter,
\* measuresFilter, yearsFilter).  is.json is what json::parse makes of the
\* whole text of the stream: whether it parses, and the records of
\* j["value"]; a text read from a later position lacks its first line and
\* does not parse
Areas_populateFromWelshStatsJSON(this, is, cols, areasFilter, measuresFilter, yearsFilter) ==
    IF checkFileStatus(is).err # "none" THEN [areas |-> this, err |-> "runtime_error"]
    ELSE IF ~is.json.parses \/ checkFileStatus(is).is.pos # 0
    THEN [areas |-> this, err |-> "parse_error"]
    ELSE WelshStatsRecords(this, is.json.value, 1, cols,
                           areasFilter, measuresFilter, yearsFilter)

\* BethYw::SourceDataType
AuthorityCodeCSV == "AuthorityCodeCSV"
AuthorityByYearCSV == "AuthorityByYearCSV"
WelshStatsJSON == "WelshStatsJSON"
None == "None"

\* void Areas::populate(is, type, cols, areasFilter, measuresFilter,
\* yearsFilter): the reader is handed the stream checkFileStatus leaves
Areas_populate(this, is, type, cols, areasFilter, measuresFilter, yearsFilter, oob) ==
    LET checked == checkFileStatus(is)
    IN  IF checked.err # "none" THEN [areas |-> this, err |-> checked.err]
        ELSE IF type = AuthorityCodeCSV
        THEN Areas_populateFromAuthorityCodeCSV(this, checked.is, cols, areasFilter, oob)
        ELSE IF type = AuthorityByYearCSV
        THEN Areas_populateFromAuthorityByYearCSV(this, checked.is, cols, areasFilter,
                                                  measuresFilter, yearsFilter, oob)
        ELSE IF type = WelshStatsJSON
        THEN Areas_populateFromWelshStatsJSON(this, checked.is, cols, areasFilter,
                                              measuresFilter, yearsFilter)
        ELSE [areas |-> this, err |-> "runtime_error"]

(***************************************************************************)
(* Ingestion: the three readers called on the collection `areas`, one      *)
(* source after another; `loaded` counts the sources read so far.          *)
(***************************************************************************)
W001 == <<"W","0","0","1">>
W002 == <<"W","0","0","2">>
Test == <<"T","e","s","t">>
Prawf == <<"P","r","a","w","f">>
codeHeader == <<"c","o","d","e">>

\* the cells of a line written out with commas between them
RECURSIVE JoinCells(_)
JoinCells(cells) ==
    IF Len(cells) = 0 THEN <<>>
    ELSE IF Len(cells) = 1 THEN cells[1]
    ELSE cells[1] \o <<",">> \o JoinCells(Tail(cells))

\* a readable stream of lines, and one carrying a JSON document
NoJson == [parses |-> FALSE, value |-> <<>>]
Stream(lines) == [bad |-> FALSE, lines |-> lines, json |-> NoJson, pos |-> 0]
JsonStream(records) ==
    [bad |-> FALSE, lines |-> <<<<"{">>>>, json |-> [parses |-> TRUE, value |-> records],
     pos |-> 0]

\* the reads past the end of a row: the process ends, or a string is found there
OobReads ==
    {[crash |-> TRUE, cell |-> <<>>], [crash |-> FALSE, cell |-> <<>>],
     [crash |-> FALSE, cell |-> <<"7">>]}
NoOob == [crash |-> TRUE, cell |-> <<>>]

\* filter terms
w001 == <<"w","0","0","1">>
est == <<"e","s","t">>
zzz == <<"z","z","z">>
POP == <<"P","O","P">>
dens == <<"d","e","n","s">>

\* areas.csv: the header code,eng,cym and one row for each of two areas
LookupCols == (AUTH_CODE :> codeHeader) @@ (AUTH_NAME_ENG :> eng) @@ (AUTH_NAME_CYM :> cym)
LookupRows == <<JoinCells(<<W001, Test, Prawf>>), JoinCells(<<W002, Gwent, Gwent>>)>>
LookupOk == Stream(<<JoinCells(<<codeHeader, eng, cym>>)>> \o LookupRows)
LookupSwapped == Stream(<<JoinCells(<<codeHeader, cym, eng>>)>> \o LookupRows)
LookupTwo == Stream(<<JoinCells(<<codeHeader, eng>>)>> \o LookupRows)
LookupFour == Stream(<<JoinCells(<<codeHeader, eng, cym, zzz>>)>> \o LookupRows)
LookupRenamed == Stream(<<JoinCells(<<W001, eng, cym>>)>> \o LookupRows)
LookupTrailing == Stream(<<JoinCells(<<codeHeader, eng, cym>>) \o <<",">>>> \o LookupRows)

Call(is, cols, areasFilter, measuresFilter, yearsFilter, oob) ==
    [is |-> is, cols |-> cols, areasFilter |-> areasFilter,
     measuresFilter |-> measuresFilter, yearsFilter |-> yearsFilter, oob |-> oob]

LookupCalls ==
    {Call(f, LookupCols, NullFilter, NullFilter, NullYears, NoOob) :
        f \in {LookupOk, LookupSwapped, LookupTwo, LookupFour, LookupRenamed, LookupTrailing}}
    \cup
    {Call(LookupOk, LookupCols, FilterOf(t), NullFilter, NullYears, NoOob) :
        t \in {{}, {w001}, {est}, {zzz}}}

\* a wide-year file: the code column and one column for each of the years
\* from 1991 on, as many as the reader accepts
WideYears == [i \in 1..(ByYearColumns - 1) |-> 1990 + i]
WideHeader(first) ==
    JoinCells(<<first>> \o [i \in 1..(ByYearColumns - 1) |-> to_string(WideYears[i])])
\* a row: the code, the cell of 1991, and 10 * i for the i-th year after it
WideRow(code, first) ==
    JoinCells(<<code, first>> \o [i \in 1..(ByYearColumns - 2) |-> to_string(10 * (i + 1))])
WideOk == Stream(<<WideHeader(codeHeader), WideRow(W001, <<"1","0">>), WideRow(W002, <<"5">>)>>)
WideText == Stream(<<WideHeader(codeHeader), WideRow(W002, <<"x">>)>>)
WideLong == Stream(<<WideHeader(codeHeader), WideRow(W001, <<"1","0">>) \o <<",", "5">>>>)
WideShort == Stream(<<WideHeader(codeHeader), JoinCells(<<W001, <<"1","0">>>>)>>)
WideNoCode == Stream(<<WideHeader(W001), WideRow(W001, <<"1","0">>)>>)
WideExample ==
    Stream(<<JoinCells(<<codeHeader, to_string(1999), to_string(2000)>>),
             JoinCells(<<W001, to_string(10), to_string(20)>>)>>)
WideCols(measureCode) ==
    (AUTH_CODE :> codeHeader) @@ (SINGLE_MEASURE_CODE :> measureCode)
        @@ (SINGLE_MEASURE_NAME :> Population)
Pop == <<"P","o","p">>
YearFilters == {YearsOf(0, 0), YearsOf(2001, 2001), YearsOf(1995, 1999)}

WideCalls ==
    {Call(f, WideCols(Pop), NullFilter, NullFilter, NullYears, NoOob) :
        f \in {WideOk, WideText, WideLong, WideNoCode, WideExample}}
    \cup {Call(WideShort, WideCols(Pop), NullFilter, NullFilter, NullYears, o) : o \in OobReads}
    \cup {Call(WideOk, WideCols(Pop), FilterOf(t), NullFilter, NullYears, NoOob) :
             t \in {{}, {w001}, {est}, {w001, zzz}}}
    \cup {Call(WideOk, WideCols(Pop), NullFilter, FilterOf(t), NullYears, NoOob) :
             t \in {{}, {pop}, {POP}, {dens}}}
    \cup {Call(WideOk, WideCols(pop), NullFilter, FilterOf(t), NullYears, NoOob) :
             t \in {{pop}, {POP}}}
    \cup {Call(WideOk, WideCols(Pop), NullFilter, NullFilter, y, NoOob) : y \in YearFilters}

\* a JSON document of two records, with the measure code in a field
codeField == <<"c","o","d","e">>
nameField == <<"n","a","m","e">>
mcodeField == <<"m","c","o","d","e">>
mnameField == <<"m","n","a","m","e">>
yearField == <<"y","e","a","r">>
valueField == <<"v","a","l","u","e">>
JsonCols ==
    (AUTH_CODE :> codeField) @@ (AUTH_NAME_ENG :> nameField) @@ (MEASURE_CODE :> mcodeField)
        @@ (MEASURE_NAME :> mnameField) @@ (YEAR :> yearField) @@ (VALUE :> valueField)
JsonRecord(code, name, measureCode, measureName, year, value) ==
    (codeField :> JString(code)) @@ (nameField :> JString(name))
        @@ (mcodeField :> JString(measureCode)) @@ (mnameField :> JString(measureName))
        @@ (yearField :> JString(year)) @@ (valueField :> value)
JsonOk ==
    JsonStream(<<JsonRecord(W001, Test, Pop, Population, to_string(1999), JNumber(10)),
                 JsonRecord(W002, Gwent, pop, Population, to_string(2001),
                            JString(to_string(30)))>>)

\* a document whose second record has a year that is no number
JsonBadYear ==
    JsonStream(<<JsonRecord(W001, Test, pop, Population, to_string(1999), JNumber(10)),
                 JsonRecord(W002, Gwent, pop, Population, <<"x">>, JNumber(30))>>)
\* a document read after JsonOk: two records for W001, pop and 1999, with
\* another name, another label and other values
JsonLater ==
    JsonStream(<<JsonRecord(W001, Powys, pop, Density, to_string(1999), JNumber(50)),
                 JsonRecord(W001, Powys, pop, Density, to_string(1999), JNumber(70))>>)

JsonCalls ==
    {Call(f, JsonCols, NullFilter, NullFilter, NullYears, NoOob) :
        f \in {JsonOk, JsonBadYear, JsonLater}}
    \cup {Call(JsonOk, JsonCols, FilterOf(t), NullFilter, NullYears, NoOob) :
             t \in {{}, {w001}, {est}, {zzz}}}
    \cup {Call(JsonOk, JsonCols, NullFilter, FilterOf(t), NullYears, NoOob) :
             t \in {{}, {pop}, {POP}, {dens}}}
    \cup {Call(JsonOk, JsonCols, NullFilter, NullFilter, y, NoOob) : y \in YearFilters}

\* areas.populateFromAuthorityCodeCSV(is, cols, areasFilter);
PopulateFromAuthorityCodeCSV(c) ==
    /\ loaded < MaxSources
    /\ LET r == Areas_populateFromAuthorityCodeCSV(areas, c.is, c.cols, c.areasFilter, c.oob)
       IN  /\ areas' = r.areas
           /\ err' = r.err
    /\ op' = [name |-> "populateFromAuthorityCodeCSV", call |-> c, pre |-> areas]
    /\ loaded' = loaded + 1
    /\ ret' = 0
    /\ UNCHANGED <<driver, measure, area, prev>>

\* areas.populateFromAuthorityByYearCSV(is, cols, areasFilter, measuresFilter, yearsFilter);
PopulateFromAuthorityByYearCSV(c) ==
    /\ loaded < MaxSources
    /\ LET r == Areas_populateFromAuthorityByYearCSV(areas, c.is, c.cols, c.areasFilter,
                                                     c.measuresFilter, c.yearsFilter, c.oob)
       IN  /\ areas' = r.areas
           /\ err' = r.err
    /\ op' = [name |-> "populateFromAuthorityByYearCSV", call |-> c, pre |-> areas]
    /\ loaded' = loaded + 1
    /\ ret' = 0
    /\ UNCHANGED <<driver, measure, area, prev>>

\* areas.populateFromWelshStatsJSON(is, cols, areasFilter, measuresFilter, yearsFilter);
PopulateFromWelshStatsJSON(c) ==
    /\ loaded < MaxSources
    /\ LET r == Areas_populateFromWelshStatsJSON(areas, c.is, c.cols, c.areasFilter,
                                                 c.measuresFilter, c.yearsFilter)
       IN  /\ areas' = r.areas
           /\ err' = r.err
    /\ op' = [name |-> "populateFromWelshStatsJSON", call |-> c, pre |-> areas]
    /\ loaded' = loaded + 1
    /\ ret' = 0
    /\ UNCHANGED <<driver, measure, area, prev>>

NextIngest ==
    \/ \E c \in LookupCalls : PopulateFromAuthorityCodeCSV(c)
    \/ \E c \in WideCalls : PopulateFromAuthorityByYearCSV(c)
    \/ \E c \in JsonCalls : PopulateFromWelshStatsJSON(c)

SpecIngest == Init /\ [][NextIngest]_vars

(***************************************************************************)
(* The readers and setArea called on the same collection, in any order.    *)
(***************************************************************************)
\* the calls of setArea: Areas built through the API under their own code,
\* and one stored under a key that is not its code
SetAreaCalls ==
    {[key |-> W001, a |-> BuildArea(W001, eng :> Powys, EmptyMap)],
     [key |-> W002, a |-> BuildArea(W002, cym :> Gwent,
                                    pop :> SetValues(Measure_new(pop, Density),
                                                     1999 :> 10, {1999}))],
     [key |-> W001, a |-> BuildArea(W002, eng :> Gwent, EmptyMap)]}

\* areas.setArea(key, a); between the sources
SetAreaBetween(c) ==
    /\ loaded < MaxSources
    /\ LET r == Areas_setArea(areas, c.key, c.a)
       IN  /\ areas' = r.areas
           /\ err' = r.err
    /\ op' = [name |-> "setArea", call |-> c, pre |-> areas]
    /\ loaded' = loaded + 1
    /\ ret' = 0
    /\ UNCHANGED <<driver, measure, area, prev>>

NextMixed ==
    \/ NextIngest
    \/ \E c \in SetAreaCalls : SetAreaBetween(c)

SpecMixed == Init /\ [][NextMixed]_vars

(***************************************************************************)
(* Areas::populate called with a format tag on streams that may be         *)
(* unreadable or without content.                                          *)
(***************************************************************************)
\* a stream with badbit set, a stream without any line, and a file whose
\* first line is empty
BadStream == [Stream(LookupOk.lines) EXCEPT !.bad = TRUE]
EmptyStream == Stream(<<>>)
BlankFirst == Stream(<<<<>>>> \o LookupOk.lines)

\* the column mapping that goes with each file
ColsOf(is) ==
    IF is = WideOk THEN WideCols(Pop) ELSE IF is = JsonOk THEN JsonCols ELSE LookupCols

PopulateStreams == {BadStream, EmptyStream, BlankFirst, LookupOk, WideOk, JsonOk}
PopulateTypes == {AuthorityCodeCSV, AuthorityByYearCSV, WelshStatsJSON, None}

\* areas.populate(is, type, cols, areasFilter, measuresFilter, yearsFilter);
Populate(is, type) ==
    /\ loaded < MaxSources
    /\ LET r == Areas_populate(areas, is, type, ColsOf(is),
                               NullFilter, NullFilter, NullYears, NoOob)
       IN  /\ areas' = r.areas
           /\ err' = r.err
    /\ op' = [name |-> "populate", is |-> is, type |-> type, pre |-> areas]
    /\ loaded' = loaded + 1
    /\ ret' = 0
    /\ UNCHANGED <<driver, measure, area, prev>>

NextPopulate == \E is \in PopulateStreams, type \in PopulateTypes : Populate(is, type)

SpecPopulate == Init /\ [][NextPopulate]_vars

(***************************************************************************)
(* Rendering: the JSON export of the collection and the table of an Area.  *)
(***************************************************************************)
\* std::map<std::string, Measure> Area::getMeasures() const, declared in
\* area.h; its body is not among the sources
Area_getMeasures(this) == this.measures

\* Area::getJsonNames(), called by Areas::toJSON; its body is not among the
\* sources: the object "names" of the export, language code to name
Area_getJsonNames(this) == this.names

\* Area::getJsonMeasures(), called by Areas::toJSON; its body is not among
\* the sources: the object "measures" of the export, codename to label and
\* values
Area_getJsonMeasures(this) ==
    [k \in DOMAIN this.measures |->
        [label |-> this.measures[k].label, values |-> this.measures[k].data]]

\* a JSON object with the given members, and the value of json a; before any
\* member is set
JObject(members) == [type |-> "object", members |-> members]
JNullDocument == [type |-> "null", members |-> EmptyMap]

\* the members a[key] gets in the loop of Areas::toJSON
AreaToJSON(a) ==
    (IF Area_getMeasures(a) # EmptyMap
     THEN "measures" :> Area_getJsonMeasures(a) ELSE EmptyMap)
    @@ ("names" :> Area_getJsonNames(a))

\* a plausible slip: the collection is not tested for emptiness, and the
\* null value is dumped
Areas_toJSON_NoEmptyCase(this) ==
    IF this = EmptyMap THEN JNullDocument
    ELSE JObject([key \in DOMAIN this |-> AreaToJSON(this[key])])

\* std::string Areas::toJSON() const.  The value is the document the
\* returned text denotes: "{}" is the object without members
Areas_toJSON(this) ==
    IF this = EmptyMap THEN JObject(EmptyMap)
    ELSE JObject([key \in DOMAIN this |-> AreaToJSON(this[key])])

\* what area.names.find(lang)->second reads when find returns end(): the
\* process ends, or some string is found there
EndReads ==
    {[crash |-> TRUE, cell |-> <<>>], [crash |-> FALSE, cell |-> <<>>],
     [crash |-> FALSE, cell |-> <<"?">>]}

\* the pieces written to the stream: a text, or a Measure followed by endl
TextItem(text) == [kind |-> "text", text |-> text, measure |-> Measure_default]
MeasureItem(m) == [kind |-> "measure", text |-> <<>>, measure |-> m]

\* the loop of operator<< over area.measures, in key order
RECURSIVE MeasureItems(_, _)
MeasureItems(measures, keys) ==
    IF keys = {} THEN <<>>
    ELSE LET k == FirstKey(keys)
         IN  <<MeasureItem(measures[k])>> \o MeasureItems(measures, keys \ {k})

\* area.names.find(lang)->second
NameAt(this, lang, end) == IF Has(this.names, lang) THEN this.names[lang] ELSE end.cell

\* std::ostream& operator<<(std::ostream &os, const Area &area): the pieces
\* written, whether the iterator end() was read through, and whether that
\* read ended the process
Area_print(this, end) ==
    LET readsEnd == ~Has(this.names, eng) \/ ~Has(this.names, cym)
    IN  IF readsEnd /\ end.crash
        THEN [out |-> <<>>, readsEnd |-> TRUE, err |-> "crash"]
        ELSE [out |-> <<TextItem(NameAt(this, eng, end)), TextItem(<<" ", "/", " ">>),
                        TextItem(NameAt(this, cym, end)), TextItem(<<" ", "(">>),
                        TextItem(this.localAuthorityCode), TextItem(<<")">>)>>
                      \o MeasureItems(this.measures, DOMAIN this.measures),
              readsEnd |-> readsEnd,
              err |-> "none"]

\* areas.toJSON();
AreasToJSON ==
    /\ ret' = Areas_toJSON(areas)
    /\ err' = "none"
    /\ op' = [name |-> "toJSON", pre |-> areas]
    /\ UNCHANGED <<driver, loaded, measure, area, areas, prev>>

\* os << areas.getArea(key);
PrintArea(key, end) ==
    /\ Has(areas, key)
    /\ LET r == Area_print(areas[key], end)
       IN  /\ ret' = r
           /\ err' = r.err
    /\ op' = [name |-> "print", key |-> key, pre |-> areas]
    /\ UNCHANGED <<driver, loaded, measure, area, areas, prev>>

NextRender ==
    \/ NextIngest
    \/ AreasToJSON
    \/ \E key \in {W001, W002} : \E end \in EndReads : PrintArea(key, end)

SpecRender == Init /\ [][NextRender]_vars

(***************************************************************************)
(* The program: main loads the areas lookup file, then every requested     *)
(* dataset in the order requested, then writes the collection.             *)
(***************************************************************************)
\* a file of the data directory: absent, or present with its content
NoFile == [exists |-> FALSE, is |-> EmptyStream]
File(is) == [exists |-> TRUE, is |-> is]

\* std::istream& InputFile::open()
InputFile_open(f) ==
    IF f.exists THEN [is |-> f.is, err |-> "none"]
    ELSE [is |-> f.is, err |-> "runtime_error"]

\* a document that is no JSON
JsonBroken == [JsonStream(<<>>) EXCEPT !.json.parses = FALSE]

\* InputFiles::AREAS.NAME, POPDEN.NAME, TRAINS.NAME and COMPLETE_POP.NAME
AREAS == "areas"
POPDEN == "popden"
TRAINS == "trains"
COMPLETE_POP == "complete-pop"

\* the handler of loadAreas: catch (std::out_of_range) only
CaughtOutOfRange(r) ==
    IF r.err = "out_of_range" THEN [areas |-> r.areas, err |-> "none", reported |-> TRUE]
    ELSE [areas |-> r.areas, err |-> r.err, reported |-> FALSE]

\* void BethYw::loadAreas(Areas &areas, std::string dir, areasFilter): what
\* the collection becomes, the exception that leaves the function, and
\* whether the function wrote "Error importing dataset" itself
loadAreas(areas0, dir, areasFilter) ==
    LET input == InputFile_open(dir[AREAS])
    IN  IF input.err # "none"
        THEN [areas |-> areas0, err |-> input.err, reported |-> FALSE]
        ELSE CaughtOutOfRange(Areas_populate(areas0, input.is, AuthorityCodeCSV, LookupCols,
                                             areasFilter, NullFilter, NullYears, NoOob))

\* the handlers every dataset loader has: catch (std::runtime_error) and
\* catch (std::out_of_range); the loaders are noexcept, so any other
\* exception ends the process through std::terminate
CaughtBy(r) ==
    IF r.err = "none" THEN [areas |-> r.areas, err |-> "none", reported |-> FALSE]
    ELSE IF r.err \in {"runtime_error", "out_of_range"}
    THEN [areas |-> r.areas, err |-> "none", reported |-> TRUE]
    ELSE [areas |-> r.areas, err |-> "terminate", reported |-> FALSE]

\* the try block of a loader of a JSON dataset
LoadJSON(areas0, f, areasFilter, measuresFilter, yearsFilter) ==
    LET input == InputFile_open(f)
    IN  IF input.err # "none" THEN [areas |-> areas0, err |-> input.err]
        ELSE Areas_populateFromWelshStatsJSON(areas0, input.is, JsonCols, areasFilter,
                                              measuresFilter, yearsFilter)

\* void BethYw::loadPopden(areas, dir, areasFilter, measuresFilter, yearsFilter) noexcept
loadPopden(areas0, dir, areasFilter, measuresFilter, yearsFilter) ==
    CaughtBy(LoadJSON(areas0, dir[POPDEN], areasFilter, measuresFilter, yearsFilter))

\* void BethYw::loadTrains(areas, dir, areasFilter, measuresFilter, yearsFilter) noexcept
loadTrains(areas0, dir, areasFilter, measuresFilter, yearsFilter) ==
    CaughtBy(LoadJSON(areas0, dir[TRAINS], areasFilter, measuresFilter, yearsFilter))

\* void BethYw::loadCompletePop(areas, dir, areasFilter, measuresFilter, yearsFilter) noexcept
loadCompletePop(areas0, dir, areasFilter, measuresFilter, yearsFilter) ==
    CaughtBy(IF InputFile_open(dir[COMPLETE_POP]).err # "none"
             THEN [areas |-> areas0, err |-> InputFile_open(dir[COMPLETE_POP]).err]
             ELSE Areas_populateFromAuthorityByYearCSV(areas0,
                      InputFile_open(dir[COMPLETE_POP]).is, WideCols(Pop),
                      areasFilter, measuresFilter, yearsFilter, NoOob))

\* one turn of the loop of BethYw::loadDatasets: the loader chosen by NAME
loadDataset(areas0, dir, name, areasFilter, measuresFilter, yearsFilter) ==
    IF name = POPDEN THEN loadPopden(areas0, dir, areasFilter, measuresFilter, yearsFilter)
    ELSE IF name = TRAINS
    THEN loadTrains(areas0, dir, areasFilter, measuresFilter, yearsFilter)
    ELSE IF name = COMPLETE_POP
    THEN loadCompletePop(areas0, dir, areasFilter, measuresFilter, yearsFilter)
    ELSE [areas |-> areas0, err |-> "none", reported |-> FALSE]

\* std::ostream& operator<<(std::ostream &os, const Areas &areas): every
\* Area in key order, up to the first one whose printing ends the process
Printed(first, rest) ==
    IF first.err # "none" THEN [out |-> <<>>, err |-> first.err]
    ELSE [out |-> first.out \o rest.out, err |-> rest.err]
RECURSIVE PrintAreas(_, _, _)
PrintAreas(this, keys, end) ==
    IF keys = {} THEN [out |-> <<>>, err |-> "none"]
    ELSE Printed(Area_print(this[FirstKey(keys)], end),
                 PrintAreas(this, keys \ {FirstKey(keys)}, end))
Areas_print(this, end) == PrintAreas(this, DOMAIN this, end)

\* the data directories and the command lines the program is run with: all
\* files in order, or one file absent, without content or malformed
GoodDir ==
    (AREAS :> File(LookupOk)) @@ (POPDEN :> File(JsonOk)) @@ (TRAINS :> File(JsonLater))
        @@ (COMPLETE_POP :> File(WideOk))
Dirs ==
    {GoodDir}
    \cup {[GoodDir EXCEPT ![AREAS] = f] : f \in {NoFile, File(EmptyStream), File(LookupSwapped)}}
    \cup {[GoodDir EXCEPT ![POPDEN] = f] : f \in {NoFile, File(EmptyStream), File(JsonBadYear),
                                                  File(JsonBroken)}}
    \cup {[GoodDir EXCEPT ![COMPLETE_POP] = f] : f \in {NoFile, File(WideExample), File(WideText)}}
DatasetOrders ==
    {<<POPDEN, TRAINS>>, <<TRAINS, POPDEN>>, <<POPDEN, COMPLETE_POP>>, <<COMPLETE_POP, POPDEN>>}
Runs ==
    {[dir |-> d, datasetsToImport |-> o, json |-> j] :
        d \in Dirs, o \in DatasetOrders, j \in BOOLEAN}

\* main up to `Areas data = Areas();`, the arguments parsed without filters
Start(run) ==
    /\ driver.pc = "idle"
    /\ driver' = [pc |-> "loadAreas", run |-> run, todo |-> run.datasetsToImport,
                  attempted |-> <<>>, failed |-> <<>>, reported |-> <<>>, out |-> "none"]
    /\ areas' = EmptyMap
    /\ err' = "none"
    /\ op' = [name |-> "main", pre |-> areas]
    /\ ret' = 0
    /\ UNCHANGED <<loaded, measure, area, prev>>

\* what main does with the outcome r of loading the source `name`: a
\* std::runtime_error is caught by main, which reports it and returns; any
\* other exception ends the process
Loaded(name, r, todo) ==
    /\ areas' = r.areas
    /\ err' = r.err
    /\ driver' = [driver EXCEPT
           !.pc = IF r.err = "none" THEN "loadDatasets"
                  ELSE IF r.err = "runtime_error" THEN "returned" ELSE "terminated",
           !.todo = todo,
           !.attempted = Append(@, name),
           !.failed = IF r.reported \/ r.err # "none" THEN Append(@, name) ELSE @,
           !.reported = IF r.reported \/ r.err = "runtime_error" THEN Append(@, name) ELSE @]

\* BethYw::loadAreas(data, dir, &areasFilter); a std::runtime_error that
\* leaves it is caught by main, which reports it and returns
LoadAreas ==
    /\ driver.pc = "loadAreas"
    /\ Loaded(AREAS, loadAreas(areas, driver.run.dir, FilterOf({})), driver.todo)
    /\ op' = [name |-> "loadAreas", pre |-> areas]
    /\ ret' = 0
    /\ UNCHANGED <<loaded, measure, area, prev>>

\* one turn of the loop of BethYw::loadDatasets
LoadDataset ==
    /\ driver.pc = "loadDatasets"
    /\ driver.todo # <<>>
    /\ Loaded(Head(driver.todo),
              loadDataset(areas, driver.run.dir, Head(driver.todo), FilterOf({}), FilterOf({}),
                          YearsOf(0, 0)),
              Tail(driver.todo))
    /\ op' = [name |-> "loadDataset", pre |-> areas]
    /\ ret' = 0
    /\ UNCHANGED <<loaded, measure, area, prev>>

\* what main ends with once `written` went to std::cout
Written(format, written) ==
    /\ ret' = written.out
    /\ err' = written.err
    /\ driver' = [driver EXCEPT
           !.pc = IF written.err = "none" THEN "done" ELSE "terminated",
           !.out = IF written.err = "none" THEN format ELSE "none"]

\* std::cout << data.toJSON() << std::endl; or std::cout << data;
Output(end) ==
    /\ driver.pc = "loadDatasets"
    /\ driver.todo = <<>>
    /\ IF driver.run.json THEN Written("json", [out |-> Areas_toJSON(areas), err |-> "none"])
       ELSE Written("tables", Areas_print(areas, end))
    /\ op' = [name |-> "output", pre |-> areas]
    /\ UNCHANGED <<loaded, measure, area, areas, prev>>

NextDriver ==
    \/ \E run \in Runs : Start(run)
    \/ LoadAreas
    \/ LoadDataset
    \/ \E end \in EndReads : Output(end)

SpecDriver == Init /\ [][NextDriver]_vars

\* every step of main that can be taken is taken
SpecDriverLive == SpecDriver /\ WF_vars(NextDriver)

(***************************************************************************)
(* What the claims compare the code with.                                  *)
(***************************************************************************)
\* a and b merged key by key, b's entry taken where both have one
RightBiasedUnion(a, b) ==
    [k \in DOMAIN a \cup DOMAIN b |-> IF k \in DOMAIN b THEN b[k] ELSE a[k]]

\* exactly three alphabetic characters, in any letter case
IsThreeLetters(s) ==
    Len(s) = 3 /\ \A i \in 1..3 : s[i] \in Range(UpperCase) \cup Range(LowerCase)

\* the values of a map summed, and their arithmetic mean
RECURSIVE SumOf(_)
SumOf(data) ==
    IF DOMAIN data = {} THEN 0
    ELSE LET y == CHOOSE z \in DOMAIN data : TRUE
         IN  data[y] + SumOf([w \in DOMAIN data \ {y} |-> data[w]])
MeanOf(data) == [nan |-> FALSE, num |-> SumOf(data), den |-> Cardinality(DOMAIN data)]

(***************************************************************************)
(* Claims about Measure, under SpecMeasure.                                *)
(***************************************************************************)
\* C3: merging Measure `other` into a Measure is a right-biased union: the
\* label afterwards is other's, every year of other maps to other's value,
\* every year that was only in the Measure keeps its value, and there is no
\* other year.
C3_MergeIsRightBiasedUnion ==
    op.name = "merge" =>
        /\ measure.label = op.other.label
        /\ DOMAIN measure.data = DOMAIN op.pre.data \cup DOMAIN op.other.data
        /\ \A y \in DOMAIN op.other.data : measure.data[y] = op.other.data[y]
        /\ \A y \in DOMAIN op.pre.data \ DOMAIN op.other.data :
               measure.data[y] = op.pre.data[y]

\* C3 happens: operator= merged a Measure holding a year of its own and a
\* year it shares, with another value and another label, into one that
\* brings a new year.
C3_Witness ==
    /\ op.name = "merge"
    /\ op.pre.label # <<>>
    /\ op.pre.label # op.other.label
    /\ \E y \in DOMAIN op.pre.data \cap DOMAIN op.other.data :
           op.pre.data[y] # op.other.data[y]
    /\ DOMAIN op.pre.data \ DOMAIN op.other.data # {}
    /\ DOMAIN op.other.data \ DOMAIN op.pre.data # {}

\* C7: getValue(y) fails with out_of_range exactly when the series has no
\* entry for y, and otherwise returns the value last written for y.
C7_GetValueFailsIffAbsent ==
    op.name = "getValue" =>
        /\ (err = "out_of_range") <=> ~Has(measure.data, op.key)
        /\ Has(measure.data, op.key) => ret = measure.data[op.key]

\* C9: getDifference() is the value of the greatest year minus the value of
\* the smallest year when there are at least two entries, and 0 otherwise.
C9_DifferenceIsLastMinusFirst ==
    op.name = "getDifference" =>
        ret = IF Cardinality(DOMAIN measure.data) >= 2
              THEN measure.data[LastYear(measure)] - measure.data[FirstYear(measure)]
              ELSE 0

\* C10: getAverage() is the arithmetic mean of the stored values, and 0 when
\* the series is empty.
C10_AverageIsTotal ==
    op.name = "getAverage" =>
        IF DOMAIN measure.data = {}
        THEN DblEq(ret, Dbl(0))
        ELSE DblEq(ret, MeanOf(measure.data))

(***************************************************************************)
(* Claims about Area, under SpecArea.                                      *)
(***************************************************************************)
\* C4: setMeasure(c, m) stores under the lowercase form of c: a Measure
\* already held there is merged with m, its other years kept; otherwise the
\* entry created under the lowercase form of c is m.  No other entry changes.
C4_SetMeasureMergesOrInserts ==
    op.name = "setMeasure" =>
        LET c == ToLowerStr(op.codename)
        IN  /\ DOMAIN area.measures = DOMAIN op.pre \cup {c}
            /\ \A k \in DOMAIN op.pre \ {c} : area.measures[k] = op.pre[k]
            /\ IF c \in DOMAIN op.pre
               THEN area.measures[c] =
                        [op.pre[c] EXCEPT !.label = op.m.label,
                                          !.data = RightBiasedUnion(op.pre[c].data, op.m.data)]
               ELSE area.measures[c] = op.m

\* C5, as claimed: after setName(l, n) with l three letters in any letter
\* case, getName(l) with the same l returns n.
C5_SetNameThenGetNameSameCode ==
    (/\ op.name = "getName"
     /\ prev.name = "setName"
     /\ IsThreeLetters(prev.lang)
     /\ op.lang = prev.lang)
    => (err = "none" /\ ret = prev.value)

\* C5, amended: after setName(l, n) with l three letters in any letter
\* case, getName of the lowercase form of l returns n.
C5_SetNameThenGetNameLowercase ==
    (/\ op.name = "getName"
     /\ prev.name = "setName"
     /\ IsThreeLetters(prev.lang)
     /\ op.lang = ToLowerStr(prev.lang))
    => (err = "none" /\ ret = prev.value)

\* C5 happens: a name was set under an upper case code and read back under
\* the lowercase code.
C5_Witness ==
    /\ op.name = "getName"
    /\ prev.name = "setName"
    /\ prev.lang = <<"E","N","G">>
    /\ op.lang = eng
    /\ prev.value = Gwent
    /\ ret = Gwent

\* C6: setName(lang, name) fails with invalid_argument whenever lang is not
\* exactly three alphabetic characters, and then the names are as before.
C6_SetNameRejectsBadCode ==
    (op.name = "setName" /\ ~IsThreeLetters(op.lang))
    => (err = "invalid_argument" /\ area.names = op.pre)

\* C6 happens: a four-letter code was refused by an Area that holds names.
C6_Witness ==
    /\ op.name = "setName"
    /\ Len(op.lang) = 4
    /\ err = "invalid_argument"
    /\ DOMAIN op.pre = {eng, cym}
    /\ DOMAIN area.names = {eng, cym}

(***************************************************************************)
(* Claims about the Areas collection, under Spec.                          *)
(***************************************************************************)
\* C1: setArea(k, a) on a collection that holds an Area under k leaves it
\* with every name and every measure/year value it had plus those of a, a's
\* value taken for every language code, measure label and (measure, year)
\* both have; on a collection that holds none under k it stores a under k.
\* No other key changes.
C1_SetAreaMergesOrInserts ==
    op.name = "setArea" =>
        LET k == op.key
            a == op.a
            old == op.pre
        IN  /\ DOMAIN areas = DOMAIN old \cup {k}
            /\ \A j \in DOMAIN old \ {k} : areas[j] = old[j]
            /\ IF k \in DOMAIN old
               THEN /\ areas[k].names = RightBiasedUnion(old[k].names, a.names)
                    /\ DOMAIN areas[k].measures =
                           DOMAIN old[k].measures \cup DOMAIN a.measures
                    /\ \A c \in DOMAIN old[k].measures \ DOMAIN a.measures :
                           /\ areas[k].measures[c].label = old[k].measures[c].label
                           /\ areas[k].measures[c].data = old[k].measures[c].data
                    /\ \A c \in DOMAIN a.measures \ DOMAIN old[k].measures :
                           /\ areas[k].measures[c].label = a.measures[c].label
                           /\ areas[k].measures[c].data = a.measures[c].data
                    /\ \A c \in DOMAIN a.measures \cap DOMAIN old[k].measures :
                           /\ areas[k].measures[c].label = a.measures[c].label
                           /\ areas[k].measures[c].data =
                                  RightBiasedUnion(old[k].measures[c].data,
                                                   a.measures[c].data)
               ELSE areas[k] = a

\* C1 happens: an Area was merged into a stored one that had a name of its
\* own, a name with another value, and a measure with another label, a year
\* of its own and a year with another value; the collection holds another key.
C1_Witness ==
    /\ op.name = "setArea"
    /\ op.key = W1
    /\ DOMAIN op.pre = {W1, W2}
    /\ DOMAIN op.pre[W1].names = {eng, cym}
    /\ DOMAIN op.a.names = {eng}
    /\ op.a.names[eng] # op.pre[W1].names[eng]
    /\ pop \in DOMAIN op.pre[W1].measures
    /\ pop \in DOMAIN op.a.measures
    /\ op.a.measures[pop].label # op.pre[W1].measures[pop].label
    /\ DOMAIN op.pre[W1].measures[pop].data = {1999, 2000}
    /\ DOMAIN op.a.measures[pop].data = {1999}
    /\ op.a.measures[pop].data[1999] # op.pre[W1].measures[pop].data[1999]
    /\ areas[W1].measures[pop].data[2000] = op.pre[W1].measures[pop].data[2000]

\* C2: setArea(k, a) performed twice in a row leaves the collection as the
\* first of the two left it.
C2_SetAreaIdempotent ==
    (op.name = "setArea" /\ op.repeated) => areas = op.pre

\* C2 happens: the same setArea was repeated, merging an Area that has a
\* name and a measure with two values into the Area stored by the first.
C2_Witness ==
    /\ op.name = "setArea"
    /\ op.repeated
    /\ op.key = W1
    /\ eng \in DOMAIN op.a.names
    /\ pop \in DOMAIN op.a.measures
    /\ DOMAIN op.a.measures[pop].data = {1999, 2000}
    /\ areas[W1] # op.a

\* C8: a lookup of an absent key fails with out_of_range and creates no
\* entry: getName for a language without a name, getMeasure for a codename
\* without a Measure, getArea for an authority code without an Area.
C8_AbsentLookupFails ==
    /\ (op.name = "getName" /\ ~Has(op.pre[op.key].names, op.lang))
       => (err = "out_of_range" /\ areas = op.pre)
    /\ (op.name = "getMeasure" /\ ~Has(op.pre[op.key].measures, op.codename))
       => (err = "out_of_range" /\ areas = op.pre)
    /\ (op.name = "getArea" /\ ~Has(op.pre, op.key))
       => (err = "out_of_range" /\ areas = op.pre)

\* C8 happens: getArea failed for an authority code the collection does not
\* hold, on a collection that holds other Areas.
C8_Witness ==
    /\ op.name = "getArea"
    /\ op.key = W3
    /\ err = "out_of_range"
    /\ DOMAIN areas = {W1, W2}

\* C11: a row (c, e, w) of the authority-code CSV whose code c the collection
\* already holds merges into that Area: afterwards its English name is e and
\* its Welsh name w, and every measure it held before is still there.
C11_AuthorityCodeRowMerges ==
    (/\ op.name = "populateFromAuthorityCodeCSV"
     /\ op.call.is = LookupOk
     /\ op.call.areasFilter.null
     /\ W001 \in DOMAIN op.pre)
    => /\ err = "none"
       /\ areas[W001].names = (eng :> Test) @@ (cym :> Prawf)
       /\ areas[W001].measures = op.pre[W001].measures

\* C12: populateFromAuthorityCodeCSV fails whenever the first line of the
\* file is not exactly the three configured headers (code, English name, Welsh
\* name) in that order, and then the collection is as it was before the call.
C12_AuthorityCodeHeaderRejected ==
    (/\ op.name = "populateFromAuthorityCodeCSV"
     /\ op.call.is.lines[1] # JoinCells(<<op.call.cols[AUTH_CODE],
                                          op.call.cols[AUTH_NAME_ENG],
                                          op.call.cols[AUTH_NAME_CYM]>>))
    => (err # "none" /\ areas = op.pre)

\* C13: reading, with no filters and into an empty collection, a wide-year
\* CSV whose header is the code column followed by year columns y1..yn and
\* whose row is (W001, v1..vn), with the codename m configured for the file,
\* leaves Area W001 with a Measure under m whose codename is m and whose
\* values are exactly {y1: v1, .., yn: vn}: {1999: 10, 2000: 20} for the file
\* of two years, and the eleven values of the file of eleven years.
C13_WideYearRowStored ==
    (/\ op.name = "populateFromAuthorityByYearCSV"
     /\ op.call.is \in {WideExample, WideOk}
     /\ op.call.areasFilter.null
     /\ op.call.measuresFilter.null
     /\ op.call.yearsFilter.null
     /\ op.pre = EmptyMap)
    => LET m == ToLowerStr(op.call.cols[SINGLE_MEASURE_CODE])
       IN  /\ err = "none"
           /\ W001 \in DOMAIN areas
           /\ m \in DOMAIN areas[W001].measures
           /\ areas[W001].measures[m].codename = m
           /\ areas[W001].measures[m].data =
                  IF op.call.is = WideExample THEN (1999 :> 10) @@ (2000 :> 20)
                  ELSE [y \in 1991..2001 |-> 10 * (y - 1990)]

\* the number of cells of a line of comma-separated cells
CellCount(line) == 1 + Cardinality({i \in 1..Len(line) : line[i] = ","})

\* C14: populateFromAuthorityByYearCSV fails with a schema error when the
\* header does not start with the configured code column, and when a row,
\* header or data, has a number of cells other than the expected width; no
\* row of such a file is ingested.
C14_WideYearSchemaRejected ==
    (/\ op.name = "populateFromAuthorityByYearCSV"
     /\ LET lines == op.call.is.lines
            header == op.call.cols[AUTH_CODE]
        IN  \/ SubSeq(lines[1], 1, Len(header) + 1) # header \o <<",">>
            \/ \E i \in 1..Len(lines) : CellCount(lines[i]) # ByYearColumns)
    => (err \in {"runtime_error", "out_of_range"} /\ areas = op.pre)

\* C15: a wide-year CSV with a data cell that is no number (the cell of
\* W002 for 1991 reads x) fails, and no Measure of W002 holds a value for
\* 1991 afterwards.
C15_NonNumericCellAborts ==
    (/\ op.name = "populateFromAuthorityByYearCSV"
     /\ op.call.is = WideText
     /\ W002 \notin DOMAIN op.pre)
    => /\ err \in {"runtime_error", "out_of_range", "invalid_argument"}
       /\ W002 \in DOMAIN areas =>
              \A k \in DOMAIN areas[W002].measures :
                  1991 \notin DOMAIN areas[W002].measures[k].data

\* the years for which some Measure of the Area under c holds a value
HeldYears(as, c) ==
    IF c \in DOMAIN as
    THEN UNION {DOMAIN as[c].measures[k].data : k \in DOMAIN as[c].measures}
    ELSE {}

\* year y lies in the range of the filter; no filter and (0, 0) hold every year
InYearRange(yearsFilter, y) ==
    IF yearsFilter.null \/ (yearsFilter.lo = 0 /\ yearsFilter.hi = 0) THEN TRUE
    ELSE yearsFilter.lo <= y /\ y <= yearsFilter.hi

\* C16: the wide-year CSV reader and the JSON reader store the value of a
\* year y of the source for an area the collection did not hold if and only
\* if y lies in the years filter (lo, hi), lo <= y <= hi, and store every
\* year with the filter (0, 0) or without one.
C16_YearFilterAdmitsRange ==
    /\ (/\ op.name = "populateFromAuthorityByYearCSV"
        /\ op.call.is = WideOk
        /\ op.call.areasFilter.null
        /\ op.call.measuresFilter.null)
       => \A c \in {W001, W002} \ DOMAIN op.pre : \A y \in 1991..2001 :
              y \in HeldYears(areas, c) <=> InYearRange(op.call.yearsFilter, y)
    /\ (/\ op.name = "populateFromWelshStatsJSON"
        /\ op.call.is = JsonOk
        /\ op.call.areasFilter.null
        /\ op.call.measuresFilter.null)
       => /\ W001 \notin DOMAIN op.pre =>
                 \A y \in 1991..2001 :
                     y \in HeldYears(areas, W001)
                         <=> (y = 1999 /\ InYearRange(op.call.yearsFilter, y))
          /\ W002 \notin DOMAIN op.pre =>
                 \A y \in 1991..2001 :
                     y \in HeldYears(areas, W002)
                         <=> (y = 2001 /\ InYearRange(op.call.yearsFilter, y))

\* C16 happens: the wide-year CSV was read with the filter (2001, 2001) into
\* a collection that held W002 only, and W001 holds a value for 2001 alone.
C16_Witness ==
    /\ op.name = "populateFromAuthorityByYearCSV"
    /\ op.call.is = WideOk
    /\ op.call.yearsFilter = YearsOf(2001, 2001)
    /\ DOMAIN op.pre = {W002}
    /\ HeldYears(areas, W001) = {2001}

\* t occurs in s when the letter case is ignored
IsSubstringNoCase(t, s) ==
    \E i \in 0..(Len(s) - Len(t)) :
        ToLowerStr(SubSeq(s, i + 1, i + Len(t))) = ToLowerStr(t)

\* the fields of the area c a reader tests the filter terms against: the code
\* and both names of its row in the authority-code CSV, the code alone in the
\* wide-year CSV, the code and the English name in the JSON document
CheckedFields(reader, c) ==
    IF reader = "populateFromAuthorityByYearCSV" THEN {c}
    ELSE IF reader = "populateFromWelshStatsJSON"
    THEN {c, IF c = W001 THEN Test ELSE Gwent}
    ELSE IF c = W001 THEN {c, Test, Prawf} ELSE {c, Gwent}

\* C17: each of the three readers, given the source with the areas W001 and
\* W002 and a collection that does not hold the area, ingests the area if and
\* only if there is no areas filter, or the filter is empty, or some term of
\* it occurs, letter case ignored, in the code of the area or in a name the
\* reader checks.
C17_AreaFilterAdmitsSubstring ==
    (/\ op.name \in {"populateFromAuthorityCodeCSV", "populateFromAuthorityByYearCSV",
                     "populateFromWelshStatsJSON"}
     /\ op.call.is \in {LookupOk, WideOk, JsonOk}
     /\ op.call.measuresFilter.null
     /\ op.call.yearsFilter.null)
    => /\ err = "none"
       /\ \A c \in {W001, W002} \ DOMAIN op.pre :
              c \in DOMAIN areas <=>
                  \/ op.call.areasFilter.null
                  \/ op.call.areasFilter.terms = {}
                  \/ \E t \in op.call.areasFilter.terms :
                         \E f \in CheckedFields(op.name, c) : IsSubstringNoCase(t, f)

\* C17 happens: the wide-year CSV was read into an empty collection with a
\* filter whose only term, w001, occurs in the code of W001 alone, and the
\* collection holds W001 and no other area.
C17_Witness ==
    /\ op.name = "populateFromAuthorityByYearCSV"
    /\ op.call.is = WideOk
    /\ op.call.areasFilter = FilterOf({w001})
    /\ op.pre = EmptyMap
    /\ DOMAIN areas = {W001}

\* the measure with the given codename passes the filter: there is no filter,
\* or it is empty, or a term equals the codename when letter case is ignored
InMeasureFilter(measuresFilter, codename) ==
    \/ measuresFilter.null
    \/ measuresFilter.terms = {}
    \/ \E t \in measuresFilter.terms : ToLowerStr(t) = ToLowerStr(codename)

\* C18: the wide-year CSV reader and the JSON reader, reading an area the
\* collection did not hold, store the measure of the source for it if and
\* only if there is no measures filter, or the filter is empty, or a term of
\* it equals the codename of the measure, letter case ignored.
C18_MeasureFilterAdmitsCodename ==
    /\ (/\ op.name = "populateFromAuthorityByYearCSV"
        /\ op.call.is = WideOk
        /\ op.call.areasFilter.null
        /\ op.call.yearsFilter.null)
       => \A c \in {W001, W002} \ DOMAIN op.pre :
              /\ c \in DOMAIN areas
              /\ DOMAIN areas[c].measures # {}
                     <=> InMeasureFilter(op.call.measuresFilter,
                                         op.call.cols[SINGLE_MEASURE_CODE])
    /\ (/\ op.name = "populateFromWelshStatsJSON"
        /\ op.call.is = JsonOk
        /\ op.call.areasFilter.null
        /\ op.call.yearsFilter.null)
       => \A c \in {W001, W002} \ DOMAIN op.pre :
              /\ c \in DOMAIN areas
              /\ DOMAIN areas[c].measures # {}
                     <=> InMeasureFilter(op.call.measuresFilter, pop)

\* C19: the export of a collection without areas is the object without
\* members, {}; otherwise it has one member for each authority code, each
\* with a member names, and with a member measures if and only if the Area
\* holds at least one Measure.
C19_ExportStructure ==
    op.name = "toJSON" =>
        /\ ret.type = "object"
        /\ DOMAIN ret.members = DOMAIN areas
        /\ \A k \in DOMAIN areas :
               /\ "names" \in DOMAIN ret.members[k]
               /\ "measures" \in DOMAIN ret.members[k] <=> DOMAIN areas[k].measures # {}

\* C19 happens: a collection with an Area that holds a Measure and an Area
\* that holds none was exported.
C19_Witness ==
    /\ op.name = "toJSON"
    /\ DOMAIN areas = {W001, W002}
    /\ DOMAIN areas[W001].measures # {}
    /\ DOMAIN areas[W002].measures = {}
    /\ DOMAIN ret.members[W001] = {"names", "measures"}
    /\ DOMAIN ret.members[W002] = {"names"}

\* C19 happens for the collection without areas too: the export is {}.
C19_WitnessEmpty ==
    /\ op.name = "toJSON"
    /\ areas = EmptyMap
    /\ ret = JObject(EmptyMap)

\* C20: writing the table of an Area does not fail and reads no name entry
\* that does not exist: without any name a placeholder stands where the
\* names are, and with one of the two names missing only the other is
\* written.
C20_PrintToleratesMissingNames ==
    op.name = "print" =>
        LET names == op.pre[op.key].names
        IN  /\ err = "none"
            /\ ~ret.readsEnd
            /\ DOMAIN names = {} => ret.out[1].text = <<"U","n","n","a","m","e","d">>
            /\ DOMAIN names = {eng} => ret.out[1].text = names[eng]

\* C21: a file whose reading fails leaves nothing of its own in the
\* collection: after the JSON document whose second record has an unparsable
\* year, the reader has failed and the collection is as it was before the
\* call, with everything read from earlier files.
C21_FailedFileLeavesNothing ==
    (op.name = "populateFromWelshStatsJSON" /\ op.call.is = JsonBadYear)
    => (err # "none" /\ areas = op.pre)

\* what the reader of the format makes of a stream read from its first line
ReaderFromFirstLine(this, is, type) ==
    IF type = AuthorityCodeCSV
    THEN Areas_populateFromAuthorityCodeCSV(this, is, ColsOf(is), NullFilter, NoOob)
    ELSE IF type = AuthorityByYearCSV
    THEN Areas_populateFromAuthorityByYearCSV(this, is, ColsOf(is), NullFilter,
                                              NullFilter, NullYears, NoOob)
    ELSE IF type = WelshStatsJSON
    THEN Areas_populateFromWelshStatsJSON(this, is, ColsOf(is), NullFilter,
                                          NullFilter, NullYears)
    ELSE [areas |-> this, err |-> "runtime_error"]

\* C25: Areas::populate on a stream that is unreadable, or whose first line
\* is missing or empty, fails with runtime_error for every format tag and
\* leaves the collection as it was; on any other stream its check consumes
\* nothing: the outcome is that of the format's reader on the stream from its
\* first line.
C25_PopulateChecksStream ==
    op.name = "populate" =>
        IF op.is.bad \/ Len(op.is.lines) = 0 \/ op.is.lines[1] = <<>>
        THEN err = "runtime_error" /\ areas = op.pre
        ELSE LET r == ReaderFromFirstLine(op.pre, op.is, op.type)
             IN  areas = r.areas /\ err = r.err

\* C25 happens: populate read the authority-code file into a collection that
\* held areas of another file, its header was found on the first line, and
\* both rows were read.
C25_Witness ==
    /\ op.name = "populate"
    /\ op.is = LookupOk
    /\ op.type = AuthorityCodeCSV
    /\ op.pre # EmptyMap
    /\ err = "none"
    /\ areas[W001].names = (eng :> Test) @@ (cym :> Prawf)
    /\ W002 \in DOMAIN areas

\* C25 happens for a stream without content too: populate failed on a file
\* whose first line is empty, and the collection kept what it held.
C25_WitnessBlank ==
    /\ op.name = "populate"
    /\ op.is = BlankFirst
    /\ op.pre # EmptyMap
    /\ err = "runtime_error"
    /\ areas = op.pre

\* C22: whenever the ingestion of one source fails (the areas lookup file
\* included), the failure is reported, every remaining requested source is
\* still ingested in order, and the final output is still produced
C22_DriverIsolatesFailures ==
    (driver.pc # "idle" /\ driver.failed # <<>>)
        ~> (/\ driver.pc = "done"
            /\ driver.out # "none"
            /\ driver.attempted = <<AREAS>> \o driver.run.datasetsToImport
            /\ Range(driver.failed) \subseteq Range(driver.reported))

\* C23: the collection never shrinks: after setArea and after each of the
\* readers, whether it succeeded or failed, every code the collection held
\* before the call is still a key of it, with one Area for each code
C23_CollectionNeverShrinks ==
    op.name \in {"setArea", "populateFromAuthorityCodeCSV",
                 "populateFromAuthorityByYearCSV", "populateFromWelshStatsJSON"}
        => /\ DOMAIN op.pre \subseteq DOMAIN areas
           /\ Cardinality(DOMAIN areas) >= Cardinality(DOMAIN op.pre)

\* C23 witness: a reader that failed on a collection of two Areas, of which
\* the file names one, and both are still there
C23_Witness ==
    /\ op.name = "populateFromWelshStatsJSON"
    /\ op.call.is = JsonBadYear
    /\ err # "none"
    /\ DOMAIN op.pre = {W001, W002}
    /\ DOMAIN areas = {W001, W002}

\* C23 witness: setArea for a code the collection holds, next to another code
C23_WitnessSetArea ==
    /\ op.name = "setArea"
    /\ op.call.key = W001
    /\ DOMAIN op.pre = {W001, W002}
    /\ DOMAIN areas = {W001, W002}

\* C24: after any sequence of setName, setMeasure and merges of another
\* Area, every key of the Area's measures is lowercase and every key of its
\* names is exactly three lowercase letters
C24_KeysNormalised ==
    /\ \A k \in DOMAIN area.measures : k = ToLowerStr(k)
    /\ \A k \in DOMAIN area.names :
           Len(k) = 3 /\ \A i \in 1..3 : k[i] \in Range(LowerCase)

\* C24 witness: a merge has brought a Welsh name and a measure given in
\* mixed case into an Area that had a name and a measure set in mixed case
C24_Witness ==
    /\ op.name = "overwrite"
    /\ DOMAIN area.names = {eng, cym}
    /\ DOMAIN area.measures = {pop, <<"d","e","n","s">>}
    /\ DOMAIN op.pre.names = {eng}
    /\ DOMAIN op.pre.measures = {pop}

\* what the records of the document JsonOk say
JsonOkRecords ==
    {[code |-> W001, name |-> Test, codename |-> pop, label |-> Population, year |-> 1999],
     [code |-> W002, name |-> Gwent, codename |-> pop, label |-> Population, year |-> 2001]}

\* the series the collection `as` holds for a code and a codename
SeriesOf(as, code, codename) ==
    IF Has(as, code) /\ Has(as[code].measures, codename)
    THEN as[code].measures[codename].data ELSE EmptyMap

\* C26: a JSON record whose year is outside the year filter, read without
\* measure and area filters, is not skipped: its Area is in the collection
\* with the record's English name, the Area has the record's measure with
\* the record's label, and the series is the one held before, empty when
\* there was none; only the value of that year is not inserted
C26_YearExcludedRecordStillMerges ==
    (/\ op.name = "populateFromWelshStatsJSON"
     /\ op.call.is = JsonOk
     /\ op.call.areasFilter.null
     /\ op.call.measuresFilter.null
     /\ err = "none")
        => \A r \in JsonOkRecords :
               ~InYearRange(op.call.yearsFilter, r.year)
                   => /\ Has(areas, r.code)
                      /\ Has(areas[r.code].names, eng)
                      /\ areas[r.code].names[eng] = r.name
                      /\ Has(areas[r.code].measures, r.codename)
                      /\ areas[r.code].measures[r.codename].label = r.label
                      /\ SeriesOf(areas, r.code, r.codename)
                             = SeriesOf(op.pre, r.code, r.codename)

\* C26 witness: the record of 1999 read under the filter 2001-2001 into an
\* empty collection: Area W001 is there with its name and an empty series
C26_Witness ==
    /\ op.name = "populateFromWelshStatsJSON"
    /\ op.call.is = JsonOk
    /\ op.call.yearsFilter = YearsOf(2001, 2001)
    /\ op.pre = EmptyMap
    /\ Has(areas, W001)
    /\ areas[W001].measures[pop].data = EmptyMap

\* C26 witness: the same record read into a collection that holds the
\* measure with another label and a value: the label is replaced, the
\* series kept
C26_WitnessPresent ==
    /\ op.name = "populateFromWelshStatsJSON"
    /\ op.call.is = JsonOk
    /\ op.call.yearsFilter = YearsOf(2001, 2001)
    /\ Has(op.pre, W001)
    /\ Has(op.pre[W001].measures, pop)
    /\ op.pre[W001].measures[pop].label = Density
    /\ areas[W001].measures[pop].label = Population
    /\ areas[W001].measures[pop].data = 1999 :> 70

\* the record r of a document matches no term of the area filter
FailsAreaFilter(areasFilter, r) ==
    /\ ~areasFilter.null
    /\ areasFilter.terms # {}
    /\ \A t \in areasFilter.terms :
           ~IsSubstringNoCase(t, r.code) /\ ~IsSubstringNoCase(t, r.name)

\* C27 as stated: a record that fails the area filter still changes the Area
\* stored under its code: where the collection holds Area W002 without the
\* measure pop and the record of W002 fails the filter, the stored Area is
\* another one after the document was read
C27_ExcludedRecordMutatesStored ==
    (/\ op.name = "populateFromWelshStatsJSON"
     /\ op.call.is = JsonOk
     /\ FailsAreaFilter(op.call.areasFilter, CHOOSE r \in JsonOkRecords : r.code = W002)
     /\ Has(op.pre, W002)
     /\ ~Has(op.pre[W002].measures, pop))
        => areas[W002] # op.pre[W002]

\* C27 amended: the JSON reader applies the year, measure and area filters
\* to each record on its own, and a record that fails a non-empty area
\* filter changes nothing in the collection: the Area stored under its code
\* is the one stored before, and a code not stored before is not stored
C27_ExcludedRecordLeavesStored ==
    (/\ op.name = "populateFromWelshStatsJSON"
     /\ op.call.is = JsonOk
     /\ err = "none")
        => \A r \in JsonOkRecords :
               FailsAreaFilter(op.call.areasFilter, r)
                   => /\ Has(areas, r.code) <=> Has(op.pre, r.code)
                      /\ Has(op.pre, r.code) => areas[r.code] = op.pre[r.code]

\* C27 witness: the document read under the filter {w001} into a collection
\* that holds W002 without the measure pop: the record of W001 was merged,
\* the record of W002 left the stored Area as it was
C27_Witness ==
    /\ op.name = "populateFromWelshStatsJSON"
    /\ op.call.is = JsonOk
    /\ op.call.areasFilter = FilterOf({w001})
    /\ Has(op.pre, W002)
    /\ ~Has(op.pre[W002].measures, pop)
    /\ ~Has(op.pre, W001)
    /\ Has(areas, W001)
    /\ areas[W002] = op.pre[W002]

\* what a source says: its records in file order, each with the authority
\* code, the names it gives, and (codename pop, label, year, value) when it
\* gives a value
SourceRecord(code, names, label, year, value) ==
    [code |-> code, names |-> names, measured |-> label # <<>>,
     label |-> label, year |-> year, value |-> value]
RecordsOf(name) ==
    IF name = AREAS
    THEN <<SourceRecord(W001, (eng :> Test) @@ (cym :> Prawf), <<>>, 0, 0),
           SourceRecord(W002, (eng :> Gwent) @@ (cym :> Gwent), <<>>, 0, 0)>>
    ELSE IF name = POPDEN
    THEN <<SourceRecord(W001, eng :> Test, Population, 1999, 10),
           SourceRecord(W002, eng :> Gwent, Population, 2001, 30)>>
    ELSE IF name = TRAINS
    THEN <<SourceRecord(W001, eng :> Powys, Density, 1999, 50),
           SourceRecord(W001, eng :> Powys, Density, 1999, 70)>>
    ELSE [i \in 1..(2 * Len(WideYears)) |->
             LET j == ((i - 1) % Len(WideYears)) + 1
                 code == IF i <= Len(WideYears) THEN W001 ELSE W002
             IN  SourceRecord(code, EmptyMap, Population, WideYears[j],
                              IF code = W002 /\ j = 1 THEN 5 ELSE 10 * j)]

\* the records of the sources of a run, in the order requested
RECURSIVE RecordsInOrder(_)
RecordsInOrder(names) ==
    IF names = <<>> THEN <<>> ELSE RecordsOf(Head(names)) \o RecordsInOrder(Tail(names))

\* the last record of recs that satisfies Supplies
LastOf(recs, Supplies(_)) ==
    recs[CHOOSE i \in DOMAIN recs :
             Supplies(recs[i]) /\ \A h \in DOMAIN recs : Supplies(recs[h]) => h <= i]

\* C28: the sources are ingested in the order requested, the areas file
\* first, and when all of them are read the collection holds, for every
\* (authority code, codename, year), the value of the record ingested last
\* that gives one, for every measure the label of the last record that gives
\* it, and for every language the name of the last record that gives one
C28_LastRecordWins ==
    (driver.pc = "done" /\ driver.run.dir = GoodDir)
        => LET recs == RecordsInOrder(<<AREAS>> \o driver.run.datasetsToImport)
           IN  /\ driver.attempted = <<AREAS>> \o driver.run.datasetsToImport
               /\ \A i \in DOMAIN recs :
                      LET r == recs[i]
                          SameValue(q) == q.measured /\ q.code = r.code /\ q.year = r.year
                          SameMeasure(q) == q.measured /\ q.code = r.code
                      IN  /\ Has(areas, r.code)
                          /\ \A lang \in DOMAIN r.names :
                                 LET SameName(q) == q.code = r.code /\ lang \in DOMAIN q.names
                                 IN  /\ Has(areas[r.code].names, lang)
                                     /\ areas[r.code].names[lang]
                                            = LastOf(recs, SameName).names[lang]
                          /\ r.measured
                                 => /\ Has(areas[r.code].measures, pop)
                                    /\ areas[r.code].measures[pop].label
                                           = LastOf(recs, SameMeasure).label
                                    /\ Has(areas[r.code].measures[pop].data, r.year)
                                    /\ areas[r.code].measures[pop].data[r.year]
                                           = LastOf(recs, SameValue).value

\* C29: every entry (k, m) of an Area's measures has m.getCodename() = k:
\* after any sequence of setMeasure calls the Measure stored under a key
\* carries that key as its codename
C29_MeasureKeyIsCodename ==
    \A k \in DOMAIN area.measures : Measure_getCodename(area.measures[k]) = k

\* the entries of the collection `as` whose Area carries its key as code
Consistent(as) == {k \in DOMAIN as : Area_getLocalAuthorityCode(as[k]) = k}

\* C30 as stated: after any sequence of setArea calls and reader ingestions
\* every entry (k, a) of the collection has a.getLocalAuthorityCode() = k
C30_KeyIsAuthorityCode ==
    \A k \in DOMAIN areas : Area_getLocalAuthorityCode(areas[k]) = k

\* C30 amended: setArea(k, a) called with k the authority code of a, and
\* every reader, keep the entries that carry their key as code and add only
\* such entries; and a merge by setArea, whatever Area comes in, never
\* changes the authority code of the Area stored
C30_KeyIsAuthorityCodeWhenGiven ==
    /\ (\/ op.name \in {"populateFromAuthorityCodeCSV", "populateFromAuthorityByYearCSV",
                         "populateFromWelshStatsJSON"}
        \/ (op.name = "setArea"
               /\ op.call.key = Area_getLocalAuthorityCode(op.call.a)))
           => DOMAIN areas \ Consistent(areas) \subseteq DOMAIN op.pre \ Consistent(op.pre)
    /\ op.name = "setArea"
           => \A k \in DOMAIN op.pre :
                  Area_getLocalAuthorityCode(areas[k]) = Area_getLocalAuthorityCode(op.pre[k])

\* C30 witness: an Area with code W002 merged by setArea into the Area
\* stored under W001: its name arrived, the stored code is still W001
C30_Witness ==
    /\ op.name = "setArea"
    /\ op.call.key = W001
    /\ Area_getLocalAuthorityCode(op.call.a) = W002
    /\ Has(op.pre, W001)
    /\ Area_getLocalAuthorityCode(areas[W001]) = W001
    /\ areas[W001].names[eng] = Gwent
====
